---- MODULE Spec2Model ----
(***************************************************************************)
(* Access-control core of the live-streaming server: stream-key shape      *)
(* validation, publish verify / end callbacks, key rotation, registration, *)
(* the presence cache, the sliding-window rate limiter, and token          *)
(* verification with its revocation set.                                   *)
(*                                                                         *)
(* Strings are sequences of one-character strings so that the regular      *)
(* expressions and the key templates of the source can be computed.        *)
(* Time is Date.now() in milliseconds.                                     *)
(***************************************************************************)
EXTENDS Integers, Sequences, FiniteSets, TLC

VARIABLES
    now,                \* Date.now()
    shapeIn, shapeOut,  \* argument and result of validateStreamKey
    probeUser, probeOut,\* argument and result of isUserStreaming
    windowMs, maxRequests, \* the arguments createRateLimit was called with
    requests,           \* createRateLimit: Map identifier -> array of instants
    rlResp,             \* the limiter's answer to the latest check
    rlHist,             \* every check made so far: <<[id, at, ok]>> (history)
    users,              \* the User collection: documents, _id = position
    streamStatusCache,  \* stream.js: Map username -> {isStreaming, timestamp}
    onlineUsersCache,   \* stream.js: Map 'all' -> {data, timestamp}
    reqs,               \* the requests in flight, each at one of its awaits
    resp,               \* the latest response sent
    phase,              \* per user: last publish callback applied and the instant it stamped (history)
    started,            \* number of requests received so far (history)
    tokenBlacklist,     \* the Set of revoked token values
    timers,             \* pending setTimeout callbacks: [token, due]
    tkResp,             \* the answer to the latest token operation
    tkOps,              \* number of token operations so far (history)
    revokedLive,        \* tokens addToBlacklist was applied to while unexpired (history)
    loggedOut,          \* tokens a logout answered 200 for (history)
    jwtSecret,          \* process.env.JWT_SECRET
    routeLimit          \* the argument limitResults was called with

vars == <<now, shapeIn, shapeOut, probeUser, probeOut,
          windowMs, maxRequests, requests, rlResp, rlHist,
          users, streamStatusCache, onlineUsersCache, reqs, resp, phase, started,
          tokenBlacklist, timers, tkResp, tkOps, revokedLive, loggedOut, jwtSecret,
          routeLimit>>

tokenVars == <<tokenBlacklist, timers, tkResp, tkOps, revokedLive, loggedOut, jwtSecret>>

gateVars == <<users, streamStatusCache, onlineUsersCache, reqs, resp, phase, started,
              routeLimit>>

probeVars == <<shapeIn, shapeOut, probeUser, probeOut>>
rlVars == <<windowMs, maxRequests, requests, rlResp, rlHist>>

(***************************************************************************)
(* Maps (JavaScript Map objects, keyed collections)                        *)
(***************************************************************************)
EmptyMap == [k \in {} |-> k]
MapHas(m, k) == k \in DOMAIN m
MapSet(m, k, v) == [x \in DOMAIN m \cup {k} |-> IF x = k THEN v ELSE m[x]]

\* a result slot is empty (<<>>) or holds one value (<<v>>)
NoResult == <<>>

\* Math.ceil(a / b) for b > 0
CeilDiv_Floor(a, b) == a \div b

CeilDiv(a, b) == IF a >= 0 THEN (a + b - 1) \div b ELSE -((-a) \div b)

(***************************************************************************)
(* JavaScript values                                                       *)
(***************************************************************************)
JsUndefined == [t |-> "undefined", s |-> <<>>, n |-> 0]
JsNull == [t |-> "null", s |-> <<>>, n |-> 0]
JsString(chars) == [t |-> "string", s |-> chars, n |-> 0]
JsNumber(k) == [t |-> "number", s |-> <<>>, n |-> k]
JsArray(chars) == [t |-> "object", s |-> chars, n |-> 0]

\* ToBoolean: undefined, null, "" and 0 are falsy; objects and arrays are truthy
Truthy(v) ==
    CASE v.t = "undefined" -> FALSE
      [] v.t = "null" -> FALSE
      [] v.t = "string" -> Len(v.s) > 0
      [] v.t = "number" -> v.n # 0
      [] OTHER -> TRUE

\* a || b
JsOr(a, b) == IF Truthy(a) THEN a ELSE b

(***************************************************************************)
(* Character classes                                                       *)
(***************************************************************************)
LowerSeq == <<"a","b","c","d","e","f","g","h","i","j","k","l","m",
              "n","o","p","q","r","s","t","u","v","w","x","y","z">>
UpperSeq == <<"A","B","C","D","E","F","G","H","I","J","K","L","M",
              "N","O","P","Q","R","S","T","U","V","W","X","Y","Z">>
DigitSeq == <<"0","1","2","3","4","5","6","7","8","9">>

Range(q) == {q[i] : i \in DOMAIN q}

\* the class [a-zA-Z0-9_-] of the stream key pattern
KeyClass == Range(LowerSeq) \cup Range(UpperSeq) \cup Range(DigitSeq) \cup {"_", "-"}

\* the class [<>{}[\]\\] of sensitiveChars
SensitiveClass == {"<", ">", "{", "}", "[", "]", "\\"}

\* /^[a-zA-Z0-9_-]+$/.test(s)
KeyPatternTest(s) == Len(s) >= 1 /\ \A i \in DOMAIN s : s[i] \in KeyClass

\* /[<>{}[\]\\]/.test(s)
SensitiveTest(s) == \E i \in DOMAIN s : s[i] \in SensitiveClass

(***************************************************************************)
(* streamMiddleware.validateStreamKey                                      *)
(***************************************************************************)
MinKeyLength == 10
MaxKeyLength == 100

validateStreamKey_NoUpperBound(streamKey) ==
    IF ~Truthy(streamKey) \/ streamKey.t # "string" THEN FALSE
    ELSE IF Len(streamKey.s) < MinKeyLength THEN FALSE
    ELSE IF ~KeyPatternTest(streamKey.s) THEN FALSE
    ELSE IF SensitiveTest(streamKey.s) THEN FALSE
    ELSE TRUE

validateStreamKey(streamKey) ==
    IF ~Truthy(streamKey) \/ streamKey.t # "string" THEN FALSE
    ELSE IF Len(streamKey.s) < MinKeyLength \/ Len(streamKey.s) > MaxKeyLength THEN FALSE
    ELSE IF ~KeyPatternTest(streamKey.s) THEN FALSE
    ELSE IF SensitiveTest(streamKey.s) THEN FALSE
    ELSE TRUE

(***************************************************************************)
(* streamMiddleware.isUserStreaming                                        *)
(* A user is a record whose lastStreamTime is a JsNumber (the getTime()    *)
(* of the stored Date) or JsNull.                                          *)
(***************************************************************************)
StreamTimeout == 60000

isUserStreaming_TrustFuture(user, currentTime) ==
    IF user = JsNull \/ user.lastStreamTime = JsNull THEN FALSE
    ELSE (currentTime - user.lastStreamTime.n) < StreamTimeout

isUserStreaming(user, currentTime) ==
    IF user = JsNull \/ user.lastStreamTime = JsNull THEN FALSE
    ELSE LET lastStreamTime == user.lastStreamTime.n IN
         IF lastStreamTime > currentTime THEN FALSE
         ELSE (currentTime - lastStreamTime) < StreamTimeout

(***************************************************************************)
(* Strings of the key templates                                            *)
(***************************************************************************)
\* String.prototype.toLowerCase on the characters of the model
ToLowerCase(s) ==
    [i \in DOMAIN s |->
        IF \E j \in DOMAIN UpperSeq : UpperSeq[j] = s[i]
        THEN LowerSeq[CHOOSE j \in DOMAIN UpperSeq : UpperSeq[j] = s[i]]
        ELSE s[i]]

\* Number.prototype.toString(36)
RECURSIVE ToString36(_)
ToString36(k) ==
    LET digits == DigitSeq \o LowerSeq IN
    IF k < 36 THEN <<digits[k + 1]>>
    ELSE ToString36(k \div 36) \o <<digits[(k % 36) + 1]>>

\* a value of uuidv4(): xxxxxxxx-xxxx-4xxx-8xxx-xxxxxxxxxxxx with every x = c
Uuid(c) ==
    [i \in 1..36 |-> IF i \in {9, 14, 19, 24} THEN "-"
                     ELSE IF i = 15 THEN "4"
                     ELSE IF i = 20 THEN "8"
                     ELSE c]

\* uuidv4().replace(/-/g, '').substring(0, 16)
RandomPart(uuid) ==
    LET NotHyphen(c) == c # "-" IN SubSeq(SelectSeq(uuid, NotHyphen), 1, 16)

\* auth.js: `${username}_${uuidv4()}`
RegisterKey(username, uuid) == username \o <<"_">> \o uuid

RotateKey_Dotted(username, timestamp, uuid) ==
    username \o <<".">> \o ToString36(timestamp) \o <<".">> \o RandomPart(uuid)

\* stream.js: `${user.username}_${timestamp}_${randomPart}`
RotateKey(username, timestamp, uuid) ==
    username \o <<"_">> \o ToString36(timestamp) \o <<"_">> \o RandomPart(uuid)

(***************************************************************************)
(* The User collection (models/User, mongoose)                             *)
(***************************************************************************)
NewUser(id, username, streamKey, isActive) ==
    [id |-> id, username |-> username, streamKey |-> streamKey, isActive |-> isActive,
     lastStreamTime |-> JsNull, lastStreamEndTime |-> JsNull, streamCount |-> 0,
     streamKeyUpdatedAt |-> JsNull]

UserIds == DOMAIN users

\* User.findOne({ streamKey })
FindOneByStreamKey(streamKey) ==
    IF \E id \in UserIds : JsString(users[id].streamKey) = streamKey
    THEN users[CHOOSE id \in UserIds : JsString(users[id].streamKey) = streamKey]
    ELSE JsNull

\* User.findById(id)
FindById(id) == IF id \in UserIds THEN users[id] ELSE JsNull

\* User.findOne({ username: { $regex: new RegExp(`^${username}$`, 'i') } }),
\* for names that passed validateUsername / validateRegistration
FindOneByUsername(username) ==
    IF \E id \in UserIds : ToLowerCase(users[id].username) = ToLowerCase(username)
    THEN users[CHOOSE id \in UserIds :
                   ToLowerCase(users[id].username) = ToLowerCase(username)]
    ELSE JsNull

\* the unique index on streamKey: a write that gives document id this key is
\* rejected (E11000) when another document holds it
StreamKeyIndexRejects(id, streamKey) ==
    \E other \in UserIds : other # id /\ users[other].streamKey = streamKey

UsernameIndexRejects_AsGiven(username) ==
    \E other \in UserIds : users[other].username = username

\* the unique index on username (stored lower-cased by the schema)
UsernameIndexRejects(username) ==
    \E other \in UserIds : users[other].username = ToLowerCase(username)

(***************************************************************************)
(* streamMiddleware helpers used by the routes                             *)
(***************************************************************************)
\* req.body.name || req.body.key || req.body.stream_key || req.body.streamKey
BodyStreamKey(body) == JsOr(JsOr(JsOr(body.name, body.key), body.stream_key), body.streamKey)

\* validateUsername (the :username parameter is a non-empty string)
MaxUsernameLength == 20
UsernameClass == Range(LowerSeq) \cup Range(UpperSeq) \cup Range(DigitSeq) \cup {"_"}
validateUsername(username) ==
    /\ Len(username) >= 1
    /\ ~(Len(username) > MaxUsernameLength \/ \E i \in DOMAIN username : username[i] \notin UsernameClass)
    /\ ~SensitiveTest(username)

\* generateStreamUrls(username).watchUrl, with the default host and port
WatchUrl(username) ==
    <<"http://3.107.21.209:8000/live/">> \o username \o <<"/index.m3u8">>

formatUserStreamData_AlwaysKey(user, includeStreamKey, currentTime) ==
    [username |-> user.username,
     isStreaming |-> isUserStreaming(user, currentTime),
     watchUrl |-> WatchUrl(user.username),
     streamKey |-> <<user.streamKey>>]

\* formatUserStreamData(user, includeStreamKey): the fields the claims read
formatUserStreamData(user, includeStreamKey, currentTime) ==
    [username |-> user.username,
     isStreaming |-> isUserStreaming(user, currentTime),
     watchUrl |-> WatchUrl(user.username),
     streamKey |-> IF includeStreamKey THEN <<user.streamKey>> ELSE <<>>]

(***************************************************************************)
(* The presence cache of stream.js                                         *)
(***************************************************************************)
CACHE_TTL == 60000

CacheFresh_NoTtl(cache, key, currentTime) == MapHas(cache, key)

\* cachedStatus && Date.now() - cachedStatus.timestamp < CACHE_TTL
CacheFresh(cache, key, currentTime) ==
    MapHas(cache, key) /\ currentTime - cache[key].timestamp < CACHE_TTL

SweptCache_AnyAge(cache, currentTime) ==
    [k \in {k \in DOMAIN cache : ~(currentTime - cache[k].timestamp > 0)} |-> cache[k]]

\* cleanupCache, on one Map
SweptCache(cache, currentTime) ==
    [k \in {k \in DOMAIN cache : ~(currentTime - cache[k].timestamp > CACHE_TTL)} |-> cache[k]]

(***************************************************************************)
(* Requests of the stream routes.  A request in flight waits at one of the *)
(* awaits of its handler; an action is the store call that resolves the    *)
(* await together with the handler code up to the next await or response.  *)
(***************************************************************************)
NoObs == [shape |-> FALSE, found |-> FALSE, active |-> FALSE, owner |-> 0]

Idle == [op |-> "idle", pc |-> "", key |-> JsUndefined, uid |-> 0, name |-> <<>>,
         user |-> JsNull, date |-> 0, newKey |-> <<>>, attempts |-> 0, obs |-> NoObs,
         resultLimit |-> 0]

\* res.status(status).json({code, ...}); live is the isStreaming field when present;
\* thrown records that the response was sent by the catch block of the handler
Response(op, status, code, uid, key, live, obs) ==
    [op |-> op, status |-> status, code |-> code, uid |-> uid,
     live |-> live, obs |-> obs, data |-> <<>>, thrown |-> FALSE]

\* res.json({ success: true, data })
WithData(response, data) == [response EXCEPT !.data = <<data>>]

NoReply == Response("", 0, "", 0, JsUndefined, <<>>, NoObs)

Await(i, r) == /\ reqs' = [reqs EXCEPT ![i] = r]
               /\ UNCHANGED resp

Reply(i, response) == /\ reqs' = [reqs EXCEPT ![i] = Idle]
                      /\ resp' = response

\* what the store holds for a claimed key at the instant of the lookup (history)
Observe(streamKey) ==
    [shape |-> validateStreamKey(streamKey),
     found |-> \E id \in UserIds : streamKey.t = "string" /\ users[id].streamKey = streamKey.s,
     active |-> \E id \in UserIds : /\ streamKey.t = "string"
                                    /\ users[id].streamKey = streamKey.s
                                    /\ users[id].isActive,
     owner |-> IF \E id \in UserIds : streamKey.t = "string" /\ users[id].streamKey = streamKey.s
               THEN CHOOSE id \in UserIds : users[id].streamKey = streamKey.s
               ELSE 0]

VerifyGate_NoActiveCheck(user) ==
    IF user = JsNull THEN "INVALID_STREAM_KEY" ELSE "OK"

\* the checks of router.post('/verify') on the document found
VerifyGate(user) ==
    IF user = JsNull THEN "INVALID_STREAM_KEY"
    ELSE IF ~user.isActive THEN "ACCOUNT_DISABLED"
    ELSE "OK"

\* POST /verify: validateStreamKeyMiddleware, then the handler up to findOne
VerifyStart(i, body) ==
    LET streamKey == BodyStreamKey(body) IN
    /\ reqs[i] = Idle
    /\ IF ~Truthy(streamKey)
       THEN Reply(i, Response("verify", 400, "MISSING_STREAM_KEY", 0, streamKey, <<>>, NoObs))
       ELSE IF ~validateStreamKey(streamKey)
       THEN Reply(i, Response("verify", 400, "INVALID_STREAM_KEY_FORMAT", 0, streamKey, <<>>,
                              Observe(streamKey)))
       ELSE Await(i, [Idle EXCEPT !.op = "verify", !.pc = "findOne", !.key = streamKey])
    /\ UNCHANGED <<users, streamStatusCache, onlineUsersCache, phase>>

\* POST /verify when streamMiddleware failed to load and the stand-ins of
\* lines 39-51 are in use: validateStreamKeyMiddleware is (req, res, next) =>
\* next(), req.validatedStreamKey is never set, and the handler goes on to
\* findOne({ streamKey: undefined })
VerifyStartFallback(i, body) ==
    /\ reqs[i] = Idle
    /\ Await(i, [Idle EXCEPT !.op = "verify", !.pc = "findOne", !.key = JsUndefined])
    /\ UNCHANGED <<users, streamStatusCache, onlineUsersCache, phase>>

\* POST /end with the stand-ins: handleStreamEnd is (req, res, next) => next(),
\* req.streamEndData is not set, so streamKey is undefined, no lookup is made
\* and 200 is sent
EndStartFallback(i, body) ==
    /\ reqs[i] = Idle
    /\ Reply(i, Response("end", 200, "OK", 0, JsUndefined, <<>>, NoObs))
    /\ UNCHANGED <<users, streamStatusCache, onlineUsersCache, phase>>

VerifyFound_MarksFirst(i) ==
    LET r == reqs[i]
        user == FindOneByStreamKey(r.key)
        gate == VerifyGate(user)
    IN
    /\ r.op = "verify" /\ r.pc = "findOne"
    /\ streamStatusCache' = IF user = JsNull THEN streamStatusCache
                            ELSE MapSet(streamStatusCache, user.username,
                                        [isStreaming |-> TRUE, timestamp |-> now])
    /\ IF gate # "OK"
       THEN Reply(i, Response("verify", 403, gate, 0, r.key, <<>>, Observe(r.key)))
       ELSE Await(i, [r EXCEPT !.pc = "updateOne", !.user = user, !.date = now,
                               !.obs = Observe(r.key)])
    /\ UNCHANGED <<users, onlineUsersCache, phase>>

\* findOne({ streamKey }) resolves: the two 403 answers, or the updateOne is sent
VerifyFound(i) ==
    LET r == reqs[i]
        user == FindOneByStreamKey(r.key)
        gate == VerifyGate(user)
    IN
    /\ r.op = "verify" /\ r.pc = "findOne"
    /\ IF gate # "OK"
       THEN Reply(i, Response("verify", 403, gate, 0, r.key, <<>>, Observe(r.key)))
       ELSE Await(i, [r EXCEPT !.pc = "updateOne", !.user = user, !.date = now,
                               !.obs = Observe(r.key)])
    /\ UNCHANGED <<users, streamStatusCache, onlineUsersCache, phase>>

VerifyUpdated_ReadModifyWrite(i) ==
    LET r == reqs[i] IN
    /\ r.op = "verify" /\ r.pc = "updateOne"
    /\ users' = [users EXCEPT ![r.user.id].lastStreamTime = JsNumber(r.date),
                              ![r.user.id].streamCount = r.user.streamCount + 1]
    /\ streamStatusCache' = MapSet(streamStatusCache, r.user.username,
                                   [isStreaming |-> TRUE, timestamp |-> now])
    /\ phase' = [phase EXCEPT ![r.user.id] = [tag |-> "live", at |-> r.date,
                                              allowed |-> <<now>>]]
    /\ Reply(i, Response("verify", 200, "OK", r.user.id, r.key, <<>>, r.obs))
    /\ UNCHANGED onlineUsersCache

\* updateOne resolves (acknowledged): the cache is set and 200 is sent
VerifyUpdated(i) ==
    LET r == reqs[i] IN
    /\ r.op = "verify" /\ r.pc = "updateOne"
    /\ users' = [users EXCEPT ![r.user.id].lastStreamTime = JsNumber(r.date),
                              ![r.user.id].streamCount = @ + 1]
    /\ streamStatusCache' = MapSet(streamStatusCache, r.user.username,
                                   [isStreaming |-> TRUE, timestamp |-> now])
    /\ phase' = [phase EXCEPT ![r.user.id] = [tag |-> "live", at |-> r.date,
                                              allowed |-> <<now>>]]
    /\ Reply(i, Response("verify", 200, "OK", r.user.id, r.key, <<>>, r.obs))
    /\ UNCHANGED onlineUsersCache

\* POST /end: handleStreamEnd, then the handler up to findOne
EndStart(i, body) ==
    LET streamKey == BodyStreamKey(body) IN
    /\ reqs[i] = Idle
    /\ IF ~Truthy(streamKey)
       THEN Reply(i, Response("end", 400, "MISSING_STREAM_KEY", 0, streamKey, <<>>, NoObs))
       ELSE IF streamKey.t # "string"
       THEN \* streamKey.substring is not a function: caught at line 261
            Reply(i, Response("end", 500, "INTERNAL_SERVER_ERROR", 0, streamKey, <<>>, NoObs))
       ELSE Await(i, [Idle EXCEPT !.op = "end", !.pc = "findOne", !.key = streamKey])
    /\ UNCHANGED <<users, streamStatusCache, onlineUsersCache, phase>>

EndFound(i) ==
    LET r == reqs[i]
        user == FindOneByStreamKey(r.key)
    IN
    /\ r.op = "end" /\ r.pc = "findOne"
    /\ IF user = JsNull
       THEN Reply(i, Response("end", 200, "OK", 0, r.key, <<>>, Observe(r.key)))
       ELSE Await(i, [r EXCEPT !.pc = "updateOne", !.user = user, !.date = now,
                               !.obs = Observe(r.key)])
    /\ UNCHANGED <<users, streamStatusCache, onlineUsersCache, phase>>

EndUpdated(i) ==
    LET r == reqs[i] IN
    /\ r.op = "end" /\ r.pc = "updateOne"
    /\ users' = [users EXCEPT ![r.user.id].lastStreamEndTime = JsNumber(r.date)]
    /\ streamStatusCache' = MapSet(streamStatusCache, r.user.username,
                                   [isStreaming |-> FALSE, timestamp |-> now])
    /\ phase' = [phase EXCEPT ![r.user.id].tag = "ended", ![r.user.id].at = r.date]
    /\ Reply(i, Response("end", 200, "OK", r.user.id, r.key, <<>>, r.obs))
    /\ UNCHANGED onlineUsersCache

\* GET /status for the token's user id
StatusStart(i, uid) ==
    /\ reqs[i] = Idle
    /\ Await(i, [Idle EXCEPT !.op = "status", !.pc = "findById", !.uid = uid])
    /\ UNCHANGED <<users, streamStatusCache, onlineUsersCache, phase>>

StatusRead(i) ==
    LET r == reqs[i]
        user == FindById(r.uid)
    IN
    /\ r.op = "status" /\ r.pc = "findById"
    /\ IF user = JsNull
       THEN Reply(i, Response("status", 404, "USER_NOT_FOUND", r.uid, JsUndefined, <<>>, NoObs))
       ELSE LET data == formatUserStreamData(user, TRUE, now) IN
            Reply(i, WithData(Response("status", 200, "OK", r.uid, JsString(data.streamKey[1]),
                                       <<data.isStreaming>>, NoObs),
                              data))
    /\ UNCHANGED <<users, streamStatusCache, onlineUsersCache, phase>>

\* POST /regenerate-key for the token's user id
MaxAttempts == 5

UuidChars == {"a", "0"}
Uuids == {Uuid(c) : c \in UuidChars}

RotateStart(i, uid) ==
    /\ reqs[i] = Idle
    /\ Await(i, [Idle EXCEPT !.op = "rotate", !.pc = "findById", !.uid = uid])
    /\ UNCHANGED <<users, streamStatusCache, onlineUsersCache, phase>>

\* findById resolves: 404, 409, or the first candidate is looked up
RotateRead(i) ==
    LET r == reqs[i]
        user == FindById(r.uid)
    IN
    /\ r.op = "rotate" /\ r.pc = "findById"
    /\ IF user = JsNull
       THEN Reply(i, Response("rotate", 404, "USER_NOT_FOUND", r.uid, JsUndefined, <<>>, NoObs))
       ELSE IF isUserStreaming(user, now)
       THEN Reply(i, Response("rotate", 409, "STREAMING_IN_PROGRESS", r.uid,
                              JsString(user.streamKey), <<TRUE>>, NoObs))
       ELSE \E uuid \in Uuids :
               Await(i, [r EXCEPT !.pc = "findOne", !.user = user,
                                  !.newKey = RotateKey(user.username, now, uuid)])
    /\ UNCHANGED <<users, streamStatusCache, onlineUsersCache, phase>>

RotateChecked_OneMoreTurn(i) ==
    LET r == reqs[i]
        existingUser == FindOneByStreamKey(JsString(r.newKey))
        isUnique == existingUser = JsNull
        attempts == r.attempts + 1
    IN
    /\ r.op = "rotate" /\ r.pc = "findOne"
    /\ IF ~isUnique /\ attempts <= MaxAttempts
       THEN \E uuid \in Uuids :
               Await(i, [r EXCEPT !.attempts = attempts,
                                  !.newKey = RotateKey(r.user.username, now, uuid)])
       ELSE IF ~isUnique
       THEN Reply(i, Response("rotate", 500, "KEY_GENERATION_FAILED", r.uid,
                              JsString(r.user.streamKey), <<>>, NoObs))
       ELSE Await(i, [r EXCEPT !.pc = "updateOne", !.attempts = attempts, !.date = now])
    /\ UNCHANGED <<users, streamStatusCache, onlineUsersCache, phase>>

\* findOne({ streamKey: newStreamKey }) resolves: one turn of the while loop
RotateChecked(i) ==
    LET r == reqs[i]
        existingUser == FindOneByStreamKey(JsString(r.newKey))
        isUnique == existingUser = JsNull
        attempts == r.attempts + 1
    IN
    /\ r.op = "rotate" /\ r.pc = "findOne"
    /\ IF ~isUnique /\ attempts < MaxAttempts
       THEN \E uuid \in Uuids :
               Await(i, [r EXCEPT !.attempts = attempts,
                                  !.newKey = RotateKey(r.user.username, now, uuid)])
       ELSE IF ~isUnique
       THEN Reply(i, Response("rotate", 500, "KEY_GENERATION_FAILED", r.uid,
                              JsString(r.user.streamKey), <<>>, NoObs))
       ELSE Await(i, [r EXCEPT !.pc = "updateOne", !.attempts = attempts, !.date = now])
    /\ UNCHANGED <<users, streamStatusCache, onlineUsersCache, phase>>

\* updateOne({ streamKey: newStreamKey }) resolves, or is rejected by the index
RotateUpdated(i) ==
    LET r == reqs[i] IN
    /\ r.op = "rotate" /\ r.pc = "updateOne"
    /\ IF StreamKeyIndexRejects(r.user.id, r.newKey)
       THEN /\ Reply(i, Response("rotate", 500, "KEY_REGENERATION_FAILED", r.uid,
                                 JsString(r.user.streamKey), <<>>, NoObs))
            /\ UNCHANGED users
       ELSE /\ users' = [users EXCEPT ![r.user.id].streamKey = r.newKey,
                                      ![r.user.id].streamKeyUpdatedAt = JsNumber(r.date)]
            /\ Reply(i, Response("rotate", 200, "OK", r.uid, JsString(r.newKey), <<>>, NoObs))
    /\ UNCHANGED <<streamStatusCache, onlineUsersCache, phase>>

\* GET /public/:username: validateUsername, then the cache, then findOne
PublicStart(i, username) ==
    /\ reqs[i] = Idle
    /\ IF ~validateUsername(username)
       THEN Reply(i, Response("public", 400, "INVALID_USERNAME_FORMAT", 0, JsString(username),
                              <<>>, NoObs))
       ELSE IF CacheFresh(streamStatusCache, username, now)
       THEN Reply(i, WithData(Response("public", 200, "CACHED", 0, JsString(username),
                                       <<streamStatusCache[username].isStreaming>>, NoObs),
                              [username |-> username,
                               isStreaming |-> streamStatusCache[username].isStreaming,
                               watchUrl |-> WatchUrl(username),
                               streamKey |-> <<>>]))
       ELSE Await(i, [Idle EXCEPT !.op = "public", !.pc = "findOne", !.name = username])
    /\ UNCHANGED <<users, streamStatusCache, onlineUsersCache, phase>>

PublicFound(i) ==
    LET r == reqs[i]
        user == FindOneByUsername(r.name)
    IN
    /\ r.op = "public" /\ r.pc = "findOne"
    /\ IF user = JsNull \/ ~user.isActive
       THEN /\ Reply(i, Response("public", 404, "USER_NOT_FOUND", 0, JsString(r.name), <<>>, NoObs))
            /\ UNCHANGED streamStatusCache
       ELSE LET responseData == formatUserStreamData(user, FALSE, now) IN
            /\ streamStatusCache' =
                   MapSet(streamStatusCache, r.name,
                          [isStreaming |-> responseData.isStreaming, timestamp |-> now])
            /\ Reply(i, WithData(Response("public", 200, "OK", user.id, JsString(r.name),
                                          <<responseData.isStreaming>>, NoObs),
                                 responseData))
    /\ UNCHANGED <<users, onlineUsersCache, phase>>

CleanupCache_StatusOnly ==
    /\ streamStatusCache' = SweptCache(streamStatusCache, now)
    /\ onlineUsersCache' = onlineUsersCache
    /\ streamStatusCache' # streamStatusCache
    /\ UNCHANGED <<now, probeVars, rlVars, tokenVars, users, reqs, resp, phase, started,
                   routeLimit>>

\* setInterval(cleanupCache, CACHE_TTL)
CleanupCache ==
    /\ streamStatusCache' = SweptCache(streamStatusCache, now)
    /\ onlineUsersCache' = SweptCache(onlineUsersCache, now)
    /\ streamStatusCache' # streamStatusCache \/ onlineUsersCache' # onlineUsersCache
    /\ UNCHANGED <<now, probeVars, rlVars, tokenVars, users, reqs, resp, phase, started,
                   routeLimit>>

(***************************************************************************)
(* A store call rejects: the await throws into the catch block of the      *)
(* handler, which answers 500 and touches nothing else                     *)
(***************************************************************************)
StreamOps == {"verify", "end", "status", "rotate", "public", "online"}

\* the code field of the catch block's answer (the /end answer has none)
CatchCode(op) ==
    CASE op = "verify" -> "INTERNAL_SERVER_ERROR"
      [] op = "end" -> ""
      [] op = "status" -> "STATUS_FETCH_FAILED"
      [] op = "rotate" -> "KEY_REGENERATION_FAILED"
      [] op = "public" -> "PUBLIC_INFO_FETCH_FAILED"
      [] op = "online" -> "ONLINE_USERS_FETCH_FAILED"

StoreFails_AnswersOk(i) ==
    LET r == reqs[i] IN
    /\ r.op \in StreamOps
    /\ Reply(i, [Response(r.op, 200, "OK", r.uid, r.key, <<>>, r.obs)
                 EXCEPT !.thrown = TRUE])
    /\ UNCHANGED <<users, streamStatusCache, onlineUsersCache, phase>>

StoreFails(i) ==
    LET r == reqs[i] IN
    /\ r.op \in StreamOps
    /\ Reply(i, [Response(r.op, 500, CatchCode(r.op), r.uid, r.key, <<>>, r.obs)
                 EXCEPT !.thrown = TRUE])
    /\ UNCHANGED <<users, streamStatusCache, onlineUsersCache, phase>>

(***************************************************************************)
(* GET /stream/online: limitResults(50), the cache, then User.find         *)
(***************************************************************************)
MinLimit == 1
MaxLimit == 100
DefaultLimit == 50

Min(a, b) == IF a < b THEN a ELSE b
Max(a, b) == IF a > b THEN a ELSE b

limitResults_Unclamped(limit) ==
    IF limit.t = "undefined" THEN DefaultLimit ELSE limit.n

\* limitResults(limit = 50): the req.resultLimit the middleware sets
limitResults(limit) ==
    IF limit.t = "undefined" THEN Min(Max(DefaultLimit, MinLimit), MaxLimit)
    ELSE Min(Max(limit.n, MinLimit), MaxLimit)

\* User.find({isActive: true, lastStreamTime: {$gte: oneMinuteAgo}}).limit(n),
\* formatted: the documents in collection order
RECURSIVE FindOnline(_, _, _)
FindOnline(id, oneMinuteAgo, limit) ==
    IF id > Len(users) \/ limit = 0 THEN <<>>
    ELSE IF /\ users[id].isActive
            /\ users[id].lastStreamTime.t = "number"
            /\ users[id].lastStreamTime.n >= oneMinuteAgo
    THEN <<[username |-> users[id].username,
            watchUrl |-> WatchUrl(users[id].username),
            streamStartTime |-> users[id].lastStreamTime]>>
         \o FindOnline(id + 1, oneMinuteAgo, limit - 1)
    ELSE FindOnline(id + 1, oneMinuteAgo, limit)

OnlineKey == <<"a", "l", "l">>

\* limitResults(routeLimit) runs first and sets req.resultLimit
OnlineStart(i) ==
    /\ reqs[i] = Idle
    /\ IF CacheFresh(onlineUsersCache, OnlineKey, now)
       THEN Reply(i, WithData(Response("online", 200, "CACHED", 0, JsUndefined, <<>>, NoObs),
                              onlineUsersCache[OnlineKey].data))
       ELSE Await(i, [Idle EXCEPT !.op = "online", !.pc = "find",
                                  !.resultLimit = limitResults(routeLimit), !.date = now])
    /\ UNCHANGED <<users, streamStatusCache, onlineUsersCache, phase>>

\* find resolves: the list is formatted, cached and sent
OnlineFound(i) ==
    LET r == reqs[i]
        limit == IF r.resultLimit # 0 THEN r.resultLimit ELSE DefaultLimit
        formattedUsers == FindOnline(1, r.date - 60000, limit)
        responseData == [onlineCount |-> Len(formattedUsers), users |-> formattedUsers]
    IN
    /\ r.op = "online" /\ r.pc = "find"
    /\ onlineUsersCache' = MapSet(onlineUsersCache, OnlineKey,
                                  [data |-> responseData, timestamp |-> now])
    /\ Reply(i, WithData(Response("online", 200, "OK", 0, JsUndefined, <<>>, NoObs),
                         responseData))
    /\ UNCHANGED <<users, streamStatusCache, phase>>

(***************************************************************************)
(* POST /auth/register                                                     *)
(***************************************************************************)
MinUsernameLength == 3
MinPasswordLength == 6
MaxPasswordLength == 100

\* validateRegistration(username, password).length = 0
validateRegistration(username, password) ==
    /\ Truthy(username) /\ username.t = "string"
    /\ ~(Len(username.s) < MinUsernameLength \/ Len(username.s) > MaxUsernameLength)
    /\ \A k \in DOMAIN username.s : username.s[k] \in UsernameClass
    /\ Truthy(password) /\ password.t = "string"
    /\ ~(Len(password.s) < MinPasswordLength)
    /\ ~(Len(password.s) > MaxPasswordLength)

RegisterStart(i, username, password) ==
    /\ reqs[i] = Idle
    /\ IF ~validateRegistration(username, password)
       THEN Reply(i, Response("register", 400, "VALIDATION", 0, username, <<>>, NoObs))
       ELSE Await(i, [Idle EXCEPT !.op = "register", !.pc = "exists", !.name = username.s])
    /\ UNCHANGED <<users, streamStatusCache, onlineUsersCache, phase>>

\* the case-insensitive findOne resolves; bcrypt.hash touches no state and is
\* part of this step; the first candidate key is looked up
RegisterExists(i) ==
    LET r == reqs[i]
        existingUser == FindOneByUsername(r.name)
    IN
    /\ r.op = "register" /\ r.pc = "exists"
    /\ IF existingUser # JsNull
       THEN Reply(i, Response("register", 409, "USER_EXISTS", 0, JsString(r.name), <<>>, NoObs))
       ELSE \E uuid \in Uuids :
               Await(i, [r EXCEPT !.pc = "findOne", !.newKey = RegisterKey(r.name, uuid)])
    /\ UNCHANGED <<users, streamStatusCache, onlineUsersCache, phase>>

RegisterChecked(i) ==
    LET r == reqs[i]
        existingStream == FindOneByStreamKey(JsString(r.newKey))
        isStreamKeyUnique == existingStream = JsNull
        attempts == r.attempts + 1
    IN
    /\ r.op = "register" /\ r.pc = "findOne"
    /\ IF ~isStreamKeyUnique /\ attempts < MaxAttempts
       THEN \E uuid \in Uuids :
               Await(i, [r EXCEPT !.attempts = attempts, !.newKey = RegisterKey(r.name, uuid)])
       ELSE IF ~isStreamKeyUnique
       THEN Reply(i, Response("register", 500, "STREAM_KEY_GENERATION_FAILED", 0,
                              JsString(r.name), <<>>, NoObs))
       ELSE Await(i, [r EXCEPT !.pc = "save", !.attempts = attempts])
    /\ UNCHANGED <<users, streamStatusCache, onlineUsersCache, phase>>

\* newUser.save() resolves, or is rejected by a unique index (error.code 11000)
RegisterSaved(i) ==
    LET r == reqs[i]
        id == Len(users) + 1
    IN
    /\ r.op = "register" /\ r.pc = "save"
    /\ IF UsernameIndexRejects(r.name) \/ StreamKeyIndexRejects(id, r.newKey)
       THEN /\ Reply(i, Response("register", 409, "USER_EXISTS", 0, JsString(r.name), <<>>, NoObs))
            /\ UNCHANGED <<users, phase>>
       ELSE /\ users' = Append(users, NewUser(id, ToLowerCase(r.name), r.newKey, TRUE))
            /\ phase' = Append(phase, [tag |-> "never", at |-> 0, allowed |-> <<>>])
            /\ Reply(i, Response("register", 201, "CREATED", id, JsString(r.newKey), <<>>, NoObs))
    /\ UNCHANGED <<streamStatusCache, onlineUsersCache>>

(***************************************************************************)
(* authMiddleware.createRateLimit                                          *)
(***************************************************************************)
DefaultWindowMs == 900000
DefaultMaxRequests == 100

\* req.ip || req.connection.remoteAddress || 'unknown'  ("" stands for undefined)
Identifier(ip, remoteAddress) ==
    IF ip # "" THEN ip ELSE IF remoteAddress # "" THEN remoteAddress ELSE "unknown"

PrunedRequests_Inverted(identifier, windowStart) ==
    IF MapHas(requests, identifier)
    THEN LET Valid(timestamp) == timestamp < windowStart
         IN MapSet(requests, identifier, SelectSeq(requests[identifier], Valid))
    ELSE requests

\* requests after the pruning of lines 225-229
PrunedRequests(identifier, windowStart) ==
    IF MapHas(requests, identifier)
    THEN LET Valid(timestamp) == timestamp > windowStart
         IN MapSet(requests, identifier, SelectSeq(requests[identifier], Valid))
    ELSE requests

RateLimitAllows_OffByOne(userRequests) == Len(userRequests) <= maxRequests

\* the negation of the test of line 233
RateLimitAllows(userRequests) == ~(Len(userRequests) >= maxRequests)

\* the middleware returned by createRateLimit, called for one request
RateLimitCheck(ip, remoteAddress) ==
    LET identifier == Identifier(ip, remoteAddress)
        windowStart == now - windowMs
        pruned == PrunedRequests(identifier, windowStart)
        userRequests == IF MapHas(pruned, identifier) THEN pruned[identifier] ELSE <<>>
    IN IF ~RateLimitAllows(userRequests)
       THEN /\ requests' = pruned
            /\ rlResp' = [id |-> identifier, status |-> 429, code |-> "RATE_LIMIT_EXCEEDED",
                          retryAfter |-> CeilDiv(userRequests[1] - windowStart, 1000),
                          remaining |-> 0]
            /\ rlHist' = Append(rlHist, [id |-> identifier, at |-> now, ok |-> FALSE,
                                       retryAfter |-> rlResp'.retryAfter])
       ELSE /\ requests' = MapSet(pruned, identifier, Append(userRequests, now))
            /\ rlResp' = [id |-> identifier, status |-> 200, code |-> "NEXT",
                          retryAfter |-> 0,
                          remaining |-> maxRequests - (Len(userRequests) + 1)]
            /\ rlHist' = Append(rlHist, [id |-> identifier, at |-> now, ok |-> TRUE,
                                       retryAfter |-> 0])

NoResponse == [id |-> "", status |-> 0, code |-> "", retryAfter |-> 0, remaining |-> 0]

(***************************************************************************)
(* JSON Web Tokens (jsonwebtoken).  A token value is a string of two       *)
(* characters: the first tells how the token was made, the second carries  *)
(* its expiry.  jwt.decode and jwt.verify read the claims back from the    *)
(* string.                                                                 *)
(*   G  signed by generateToken (auth.js)                                  *)
(*   N  signed with the secret, without issuer and audience                *)
(*   I  signed with the secret, with another issuer                        *)
(*   A  signed with the secret, with another audience                      *)
(*   F  signature made with another secret                                 *)
(* Any other string is not a token.                                        *)
(***************************************************************************)
LongExp == 2147486  \* expiry, in seconds, of a long-lived token (more than 2^31 ms away)

ExpectedIssuer == <<"l", "s", "p">>
ExpectedAudience == <<"s", "u">>
Other == <<"o">>

SignedKinds == {"G", "N", "I", "A", "D", "U"}

HourSeconds == 3600

\* the exp claim carried by the second character
Digits == <<"0", "1", "2", "3", "4", "5", "6", "7", "8", "9">>

ExpClaim(c) ==
    CASE \E k \in 1..Len(Digits) : Digits[k] = c ->
            JsNumber((CHOOSE k \in 1..Len(Digits) : Digits[k] = c) - 1)
      [] c = "L" -> JsNumber(LongExp)
      [] c = "h" -> JsNumber(HourSeconds)
      [] c = "i" -> JsNumber(HourSeconds + 1)
      [] OTHER -> JsUndefined

\* jwt.decode(token): the payload, or null
JwtDecode(token) ==
    IF Len(token) # 2 \/ token[1] \notin SignedKinds \cup {"F"}
          \/ token[2] \notin {Digits[k] : k \in 1..Len(Digits)} \cup {"L", "h", "i", "n"}
    THEN JsNull
    ELSE [id |-> IF token[1] = "D" THEN JsUndefined ELSE JsNumber(1),
          username |-> IF token[1] = "U" THEN JsUndefined ELSE JsString(<<"a", "b", "c">>),
          iss |-> CASE token[1] \in {"G", "A", "F", "D", "U"} -> JsString(ExpectedIssuer)
                    [] token[1] = "I" -> JsString(Other)
                    [] OTHER -> JsUndefined,
          aud |-> CASE token[1] \in {"G", "I", "F", "D", "U"} -> JsString(ExpectedAudience)
                    [] token[1] = "A" -> JsString(Other)
                    [] OTHER -> JsUndefined,
          exp |-> ExpClaim(token[2])]

\* Math.floor(Date.now() / 1000)
ClockTimestamp(currentTime) == currentTime \div 1000

JwtVerify_NoExpiry(token, currentTime) ==
    LET payload == JwtDecode(token) IN
    IF payload = JsNull THEN [err |-> "JsonWebTokenError", decoded |-> JsNull]
    ELSE IF token[1] \notin SignedKinds THEN [err |-> "JsonWebTokenError", decoded |-> JsNull]
    ELSE [err |-> "", decoded |-> payload]

\* jwt.verify(token, process.env.JWT_SECRET): malformed, then signature,
\* then exp against the clock in seconds
JwtVerify(token, currentTime) ==
    LET payload == JwtDecode(token) IN
    IF payload = JsNull THEN [err |-> "JsonWebTokenError", decoded |-> JsNull]
    ELSE IF token[1] \notin SignedKinds THEN [err |-> "JsonWebTokenError", decoded |-> JsNull]
    ELSE IF payload.exp.t = "number" /\ ClockTimestamp(currentTime) >= payload.exp.n
    THEN [err |-> "TokenExpiredError", decoded |-> JsNull]
    ELSE [err |-> "", decoded |-> payload]

BearerPrefix == <<"B", "e", "a", "r", "e", "r", " ">>

\* String.prototype.startsWith
StartsWith(str, prefix) ==
    Len(str) >= Len(prefix) /\ SubSeq(str, 1, Len(prefix)) = prefix

\* String.prototype.substring(from)
Substring(str, from) == SubSeq(str, from + 1, Len(str))

\* the carriers of a request; each is undefined or a string
Request(authorization, query, body, cookie) ==
    [authorization |-> authorization, query |-> query, body |-> body, cookie |-> cookie]

HeaderOnly(authorization) == Request(authorization, JsUndefined, JsUndefined, JsUndefined)

\* an answer: user is req.user (<<>> while not attached), next tells whether
\* next() was called, headers holds the expires-soon headers when they are set
TokenResponse(op, status, code, token, req) ==
    [op |-> op, status |-> status, code |-> code, token |-> token, at |-> now, req |-> req,
     user |-> <<>>, next |-> FALSE, headers |-> <<>>]

NoTokenResponse ==
    [op |-> "", status |-> 0, code |-> "", token |-> <<>>, at |-> 0, req |-> HeaderOnly(JsUndefined),
     user |-> <<>>, next |-> FALSE, headers |-> <<>>]

\* a secret of 32 characters
ServerSecret == JsString([i \in 1..32 |-> "k"])

IdleTokens ==
    /\ tokenBlacklist = {}
    /\ timers = {}
    /\ tkResp = NoTokenResponse
    /\ tkOps = 0
    /\ revokedLive = {}
    /\ loggedOut = {}
    /\ jwtSecret = ServerSecret

(***************************************************************************)
(* The revocation set and the verifyToken that consults it                 *)
(***************************************************************************)
MaxTimerDelay == 2147483647

\* setTimeout(callback, seconds * 1000): a delay above 2^31 - 1 or below 1 is
\* set to 1 (the product is compared in whole seconds, seconds being whole)
TimerDelay(seconds) ==
    IF seconds > MaxTimerDelay \div 1000 \/ seconds < 1 THEN 1 ELSE seconds * 1000

Blacklistable_AtExpiry(token, currentTime) ==
    LET decoded == JwtDecode(token) IN
    /\ decoded # JsNull /\ Truthy(decoded.exp)
    /\ decoded.exp.n >= ClockTimestamp(currentTime)

\* addToBlacklist: decoded && decoded.exp, and decoded.exp > currentTime
Blacklistable(token, currentTime) ==
    LET decoded == JwtDecode(token) IN
    /\ decoded # JsNull /\ Truthy(decoded.exp)
    /\ decoded.exp.n > ClockTimestamp(currentTime)

\* addToBlacklist(token)
addToBlacklist(token) ==
    IF Blacklistable(token, now)
    THEN LET delay == JwtDecode(token).exp.n - ClockTimestamp(now) IN
         /\ tokenBlacklist' = tokenBlacklist \cup {token}
         /\ timers' = timers \cup {[token |-> token, due |-> now + TimerDelay(delay)]}
    ELSE UNCHANGED <<tokenBlacklist, timers>>

isTokenBlacklisted(token) == token \in tokenBlacklist

\* verifyToken of the module that keeps the revocation set
verifyTokenBlacklist(req) ==
    LET authHeader == req.authorization IN
    IF ~Truthy(authHeader) \/ ~StartsWith(authHeader.s, BearerPrefix)
    THEN TokenResponse("verify", 401, "NO_TOKEN", <<>>, req)
    ELSE LET token == Substring(authHeader.s, 7)
             result == JwtVerify(token, now)
         IN
         IF isTokenBlacklisted(token)
         THEN TokenResponse("verify", 401, "TOKEN_REVOKED", token, req)
         ELSE IF result.err = "TokenExpiredError"
         THEN TokenResponse("verify", 401, "TOKEN_EXPIRED", token, req)
         ELSE IF result.err # ""
         THEN TokenResponse("verify", 401, "TOKEN_VERIFICATION_FAILED", token, req)
         ELSE IF ~Truthy(result.decoded.id) \/ ~Truthy(result.decoded.username)
         THEN TokenResponse("verify", 401, "INVALID_TOKEN_FORMAT", token, req)
         ELSE [TokenResponse("verify", 200, "NEXT", token, req) EXCEPT
                  !.user = <<[id |-> result.decoded.id, username |-> result.decoded.username]>>,
                  !.next = TRUE]

(***************************************************************************)
(* authMiddleware.verifyToken, generateToken and POST /auth/logout         *)
(***************************************************************************)
TokenFromCarriers_QueryFirst(req) ==
    LET authHeader == req.authorization
        fromQuery == IF Truthy(req.query) THEN req.query.s ELSE <<>>
        fromHeader == IF fromQuery = <<>> /\ Truthy(authHeader)
                         /\ StartsWith(authHeader.s, BearerPrefix)
                      THEN Substring(authHeader.s, 7) ELSE fromQuery
        fromBody == IF fromHeader = <<>> /\ Truthy(req.body) THEN req.body.s ELSE fromHeader
    IN IF fromBody = <<>> /\ Truthy(req.cookie) THEN req.cookie.s ELSE fromBody

\* lines 24-46: the token, or the empty string when no carrier holds one
TokenFromCarriers(req) ==
    LET authHeader == req.authorization
        fromHeader == IF Truthy(authHeader) /\ StartsWith(authHeader.s, BearerPrefix)
                      THEN Substring(authHeader.s, 7) ELSE <<>>
        fromQuery == IF fromHeader = <<>> /\ Truthy(req.query) THEN req.query.s ELSE fromHeader
        fromBody == IF fromQuery = <<>> /\ Truthy(req.body) THEN req.body.s ELSE fromQuery
    IN IF fromBody = <<>> /\ Truthy(req.cookie) THEN req.cookie.s ELSE fromBody

\* validateEnvironment: false when JWT_SECRET is unset or empty; a secret
\* shorter than 32 characters only logs a warning
MinSecretLength == 32

validateEnvironment_RequireLength(secret) == Truthy(secret) /\ Len(secret.s) >= MinSecretLength

validateEnvironment(secret) == Truthy(secret)

ExpiresSoon_AtMost(decoded, currentTime) ==
    decoded.exp.t = "number" /\ decoded.exp.n - ClockTimestamp(currentTime) <= HourSeconds

\* lines 107-110: timeUntilExpiry < 3600 (NaN, hence false, without exp)
ExpiresSoon(decoded, currentTime) ==
    decoded.exp.t = "number" /\ decoded.exp.n - ClockTimestamp(currentTime) < HourSeconds

\* lines 97-113: req.user and the X-Token-Expires-Soon / X-Token-Expires-In
\* headers (the latter kept as the number whose decimal form is sent)
Accepted(response, decoded) ==
    [response EXCEPT
        !.user = <<[id |-> decoded.id, username |-> decoded.username, exp |-> decoded.exp]>>,
        !.next = TRUE,
        !.headers = IF ExpiresSoon(decoded, now)
                    THEN <<[expiresSoon |-> "true",
                            expiresIn |-> decoded.exp.n - ClockTimestamp(now)]>>
                    ELSE <<>>]

RequiredClaims_IdOnly(decoded) == Truthy(decoded.id)

\* line 69: decoded.id and decoded.username are both truthy
RequiredClaims(decoded) == Truthy(decoded.id) /\ Truthy(decoded.username)

\* verifyToken
verifyToken(op, req) ==
    LET token == TokenFromCarriers(req)
        result == JwtVerify(token, now)
    IN
    IF token = <<>> THEN TokenResponse(op, 401, "NO_TOKEN", token, req)
    ELSE IF ~validateEnvironment(jwtSecret)
    THEN TokenResponse(op, 500, "SERVER_CONFIG_ERROR", token, req)
    ELSE IF result.err = "TokenExpiredError"
    THEN TokenResponse(op, 401, "TOKEN_EXPIRED", token, req)
    ELSE IF result.err = "JsonWebTokenError"
    THEN TokenResponse(op, 401, "INVALID_TOKEN", token, req)
    ELSE IF ~RequiredClaims(result.decoded)
    THEN TokenResponse(op, 401, "INVALID_TOKEN_FORMAT", token, req)
    ELSE IF Truthy(result.decoded.iss) /\ result.decoded.iss # JsString(ExpectedIssuer)
    THEN TokenResponse(op, 401, "INVALID_ISSUER", token, req)
    ELSE IF Truthy(result.decoded.aud) /\ result.decoded.aud # JsString(ExpectedAudience)
    THEN TokenResponse(op, 401, "INVALID_AUDIENCE", token, req)
    ELSE Accepted(TokenResponse(op, 200, "NEXT", token, req), result.decoded)

\* the character carrying an exp claim (the inverse of ExpClaim)
ExpSymbol(seconds) == IF seconds < Len(Digits) THEN Digits[seconds + 1] ELSE "L"

\* jwt.sign with expiresIn, issuer and audience: exp = iat + expiresIn
JwtSign(issuedAt, expiresIn) == <<"G", ExpSymbol(ClockTimestamp(issuedAt) + expiresIn)>>

generateToken_Unchecked(secret, issuedAt, expiresIn) ==
    [err |-> "", token |-> JwtSign(issuedAt, expiresIn)]

\* generateToken: throws when JWT_SECRET is unset, else signs
generateToken(secret, issuedAt, expiresIn) ==
    IF ~Truthy(secret) THEN [err |-> "Error", token |-> <<>>]
    ELSE [err |-> "", token |-> JwtSign(issuedAt, expiresIn)]

MaxInFlight == 2   \* requests in flight at once

Slots == 1..MaxInFlight

IdleGate ==
    /\ users = <<>>
    /\ streamStatusCache = EmptyMap
    /\ onlineUsersCache = EmptyMap
    /\ routeLimit = JsNumber(DefaultLimit)
    /\ reqs = [i \in Slots |-> Idle]
    /\ resp = NoReply
    /\ phase = <<>>
    /\ started = 0

IdleLimiter ==
    /\ windowMs = DefaultWindowMs
    /\ maxRequests = DefaultMaxRequests
    /\ requests = EmptyMap
    /\ rlResp = NoResponse
    /\ rlHist = <<>>

(***************************************************************************)
(* Specification SpecRateLimit: one limiter, checks from several clients   *)
(***************************************************************************)
MaxBudget == 2      \* largest maxRequests a limiter is created with
MaxChecks == 4      \* checks made in one behaviour
MaxHalfWindows == 4 \* the clock stops after this many half seconds

HalfSecond == 500

WindowChoices == {1000, 1500}

ClientAddresses == {<<"10.0.0.1", "">>, <<"", "10.0.0.1">>, <<"", "">>}

InitRateLimit ==
    /\ now = 0
    /\ shapeIn = JsUndefined
    /\ shapeOut = NoResult
    /\ probeUser = JsNull
    /\ probeOut = NoResult
    /\ windowMs \in WindowChoices
    /\ maxRequests \in 1..MaxBudget
    /\ requests = EmptyMap
    /\ rlResp = NoResponse
    /\ rlHist = <<>>
    /\ IdleGate
    /\ IdleTokens

RateLimitRequest ==
    /\ Len(rlHist) < MaxChecks
    /\ \E addr \in ClientAddresses : RateLimitCheck(addr[1], addr[2])
    /\ UNCHANGED <<now, probeVars, windowMs, maxRequests, gateVars, tokenVars>>

\* the clock advances by a millisecond (once per half second) or by half a second
RateLimitTick ==
    /\ \E d \in {1, HalfSecond} :
          /\ d = 1 => now % HalfSecond = 0
          /\ now + d <= MaxHalfWindows * HalfSecond + 1
          /\ now' = now + d
    /\ UNCHANGED <<probeVars, rlVars, gateVars, tokenVars>>

(***************************************************************************)
(* Specifications Spec, SpecRotate, SpecPresence: the publish life cycle   *)
(* of registered users -- requests interleaving at their awaits, the cache *)
(* sweep and the clock.  Spec has verify, end and status; SpecRotate has   *)
(* verify and regenerate-key; SpecPresence has verify, end, public status  *)
(* and the cache sweep.                                                    *)
(***************************************************************************)
MaxStreams == 2   \* verify requests are sent while every streamCount is below this
MaxMillis == 1    \* single milliseconds the clock may add to a multiple of the timeout
MaxSpans == 1     \* timeouts (60 s) the clock may advance

Abc == <<"a", "b", "c">>
Xyz == <<"x", "y", "z">>

InitialUsers ==
    <<NewUser(1, Abc, RegisterKey(Abc, Uuid("a")), TRUE),
      NewUser(2, Xyz, RegisterKey(Xyz, Uuid("0")), FALSE)>>

\* the stream keys an ingester may present: current keys, the keys issued at
\* registration, a well-formed unknown key, malformed and missing keys
ClaimedKeys ==
    {JsString(users[id].streamKey) : id \in UserIds}
    \cup {JsString(InitialUsers[id].streamKey) : id \in DOMAIN InitialUsers}
    \cup {JsString(RegisterKey(Abc, Uuid("f"))), JsString(Abc), JsNumber(12345),
          JsUndefined}

Bodies ==
    {[name |-> k, key |-> JsUndefined, stream_key |-> JsUndefined, streamKey |-> JsUndefined] :
        k \in ClaimedKeys}
    \cup {[name |-> JsString(<<>>), key |-> JsUndefined, stream_key |-> JsUndefined,
           streamKey |-> k] : k \in ClaimedKeys}

PublicNames == {Abc, <<"A", "b", "c">>, Xyz, <<"a", "-", "c">>}

InitGate ==
    /\ now = 0
    /\ shapeIn = JsUndefined
    /\ shapeOut = NoResult
    /\ probeUser = JsNull
    /\ probeOut = NoResult
    /\ IdleLimiter
    /\ IdleTokens
    /\ users = InitialUsers
    /\ streamStatusCache = EmptyMap
    /\ onlineUsersCache = EmptyMap
    /\ routeLimit = JsNumber(DefaultLimit)
    /\ reqs = [i \in Slots |-> Idle]
    /\ resp = NoReply
    /\ phase = [id \in DOMAIN InitialUsers |-> [tag |-> "never", at |-> 0, allowed |-> <<>>]]
    /\ started = 0

\* the clock advances by a millisecond or by the timeout
Tick ==
    /\ \E d \in {1, StreamTimeout} :
          /\ d = 1 => now % StreamTimeout < MaxMillis
          /\ now + d <= MaxSpans * StreamTimeout + MaxMillis
          /\ now' = now + d
    /\ UNCHANGED <<probeVars, rlVars, gateVars, tokenVars>>

MaxReceived == 3  \* requests received in one behaviour

\* a request is received / a request in flight goes on
Receive ==
    /\ started < MaxReceived /\ started' = started + 1
    /\ UNCHANGED <<now, probeVars, rlVars, tokenVars, routeLimit>>
Resume == UNCHANGED <<now, probeVars, rlVars, tokenVars, started, routeLimit>>

CanPublish == \A id \in UserIds : users[id].streamCount < MaxStreams

(***************************************************************************)
(* Specification SpecAccounts: registrations and key rotations             *)
(* interleaving at their awaits, starting from an empty collection.        *)
(***************************************************************************)
Secret == JsString(<<"s", "e", "c", "r", "e", "t">>)

\* names differing in case only, a name that is a prefix of another, a name
\* that is too short
RegisterNames == {JsString(Abc), JsString(<<"A", "B", "C">>),
                  JsString(<<"a", "b", "c", "_", "0">>), JsString(<<"a", "b">>)}

RegisterPasswords == {Secret, JsString(<<"s">>)}

\* the ids a token may carry
AccountIds == {1, 2}

InitAccounts ==
    /\ now = 0
    /\ shapeIn = JsUndefined
    /\ shapeOut = NoResult
    /\ probeUser = JsNull
    /\ probeOut = NoResult
    /\ IdleLimiter
    /\ IdleGate
    /\ IdleTokens

(***************************************************************************)
(* Specification SpecRevocation: tokens are revoked and verified by the    *)
(* module that keeps the revocation set; its timers fire at or after the   *)
(* instant they are due.                                                   *)
(***************************************************************************)
MaxTokenOps == 3      \* token operations in one behaviour
MaxTokenSeconds == 2  \* whole seconds the clock covers besides the long expiry

TokenInstants == {k * 1000 + d : k \in 0..MaxTokenSeconds, d \in {0, 1, 999}}

NotAToken == <<"X">>

RevokeTokens == {<<"G", "0">>, <<"G", "1">>, <<"G", "2">>, <<"G", "L">>, <<"G", "n">>,
                 <<"F", "2">>, NotAToken}

RevocationHeaders ==
    {JsUndefined} \cup {JsString(BearerPrefix \o token) : token \in RevokeTokens}
    \cup {JsString(<<"B", "a", "s", "i", "c", " ">> \o token) : token \in {<<"G", "L">>}}

InitTokens ==
    /\ now = 0
    /\ shapeIn = JsUndefined
    /\ shapeOut = NoResult
    /\ probeUser = JsNull
    /\ probeOut = NoResult
    /\ IdleLimiter
    /\ IdleGate
    /\ IdleTokens

\* whether the token's expiry instant, exp seconds, lies after the instant
\* currentTime, in milliseconds
Unexpired(token, currentTime) ==
    LET decoded == JwtDecode(token) IN
    /\ decoded # JsNull /\ decoded.exp.t = "number"
    /\ \A second \in 0..MaxTokenSeconds :
          second * 1000 <= currentTime => decoded.exp.n > second

TokenStep == tkOps < MaxTokenOps /\ tkOps' = tkOps + 1

Revoke ==
    \E token \in RevokeTokens :
        /\ TokenStep
        /\ addToBlacklist(token)
        /\ revokedLive' = IF Unexpired(token, now) THEN revokedLive \cup {token}
                          ELSE revokedLive
        /\ tkResp' = TokenResponse("revoke", 0, "RETURNED", token, HeaderOnly(JsUndefined))
        /\ UNCHANGED <<now, probeVars, rlVars, gateVars, loggedOut, jwtSecret>>

VerifyRevocable ==
    \E authorization \in RevocationHeaders :
        /\ TokenStep
        /\ tkResp' = verifyTokenBlacklist(HeaderOnly(authorization))
        /\ UNCHANGED <<now, probeVars, rlVars, gateVars, tokenBlacklist, timers,
                       revokedLive, loggedOut, jwtSecret>>

\* a setTimeout callback of addToBlacklist runs: tokenBlacklist.delete(token)
TimerFire ==
    \E timer \in timers :
        /\ now >= timer.due
        /\ tokenBlacklist' = tokenBlacklist \ {timer.token}
        /\ timers' = timers \ {timer}
        /\ UNCHANGED <<now, probeVars, rlVars, gateVars, tkResp, tkOps, revokedLive, loggedOut,
                       jwtSecret>>

TokenTick ==
    /\ \E t \in TokenInstants : t > now /\ now' = t
    /\ UNCHANGED <<probeVars, rlVars, gateVars, tokenVars>>

NextRevocation == Revoke \/ VerifyRevocable \/ TimerFire \/ TokenTick

SpecRevocation == InitTokens /\ [][NextRevocation]_vars

(***************************************************************************)
(* Specification SpecTokens: requests carrying a token in the              *)
(* Authorization header are verified by authMiddleware.verifyToken,        *)
(* directly or in front of POST /auth/logout.  Specification SpecCarriers: *)
(* verifyToken applied to requests with every combination of carriers.     *)
(***************************************************************************)
HeaderToken == <<"G", "L">>

QueryToken == <<"N", "L">>

BodyToken == <<"G", "2">>

CookieToken == <<"N", "2">>

\* a carrier is absent, present and empty, or holds its token
CarrierValues(token) == {JsUndefined, JsString(<<>>), JsString(token)}

HeaderTokens ==
    {<<"G", "L">>, <<"G", "1">>, <<>>, <<"G", "0">>, <<"G", "2">>, <<"G", "n">>, <<"N", "L">>,
                        <<"N", "1">>, <<"I", "L">>, <<"I", "1">>, <<"A", "L">>, <<"F", "L">>,
                        <<"D", "L">>, <<"U", "L">>, <<"U", "1">>, <<"G", "h">>, <<"G", "i">>,
                        NotAToken}

TokenRequests == {HeaderOnly(JsString(BearerPrefix \o token)) : token \in HeaderTokens}

CarrierRequests ==
    {Request(authorization, query, body, cookie) :
        authorization \in {JsUndefined,
                            JsString(<<"B", "a", "s", "i", "c", " ">> \o HeaderToken),
                            JsString(BearerPrefix), JsString(BearerPrefix \o HeaderToken)},
        query \in CarrierValues(QueryToken), body \in CarrierValues(BodyToken),
        cookie \in CarrierValues(CookieToken)}

VerifyBearer ==
    \E req \in TokenRequests :
        /\ TokenStep
        /\ tkResp' = verifyToken("verify", req)
        /\ UNCHANGED <<now, probeVars, rlVars, gateVars, tokenBlacklist, timers,
                       revokedLive, loggedOut, jwtSecret>>

\* POST /auth/logout: verifyToken, then the handler answers 200
Logout ==
    \E req \in TokenRequests :
        /\ TokenStep
        /\ tkResp' = verifyToken("logout", req)
        /\ loggedOut' = IF tkResp'.status = 200 THEN loggedOut \cup {tkResp'.token}
                        ELSE loggedOut
        /\ UNCHANGED <<now, probeVars, rlVars, gateVars, tokenBlacklist, timers, revokedLive,
                       jwtSecret>>

VerifyCarriers ==
    \E req \in CarrierRequests :
        /\ TokenStep
        /\ tkResp' = verifyToken("verify", req)
        /\ UNCHANGED <<now, probeVars, rlVars, gateVars, tokenBlacklist, timers,
                       revokedLive, loggedOut, jwtSecret>>

NextTokens == VerifyBearer \/ Logout \/ TokenTick

\* optionalAuth: without an Authorization header req.user is null and next()
\* is called; with one, verifyToken runs (it answers by itself and does not
\* throw, so the catch block is not reached); status 0: nothing was sent
optionalAuth(op, req) ==
    IF ~Truthy(req.authorization)
    THEN [TokenResponse(op, 0, "", <<>>, req) EXCEPT !.user = <<JsNull>>, !.next = TRUE]
    ELSE verifyToken(op, req)

\* requests without an Authorization header, with and without a query token
OptionalRequests ==
    TokenRequests \cup {HeaderOnly(JsUndefined),
                        Request(JsUndefined, JsString(QueryToken), JsUndefined, JsUndefined)}

OptionalAuth ==
    \E req \in OptionalRequests :
        /\ TokenStep
        /\ tkResp' = optionalAuth("optional", req)
        /\ UNCHANGED <<now, probeVars, rlVars, gateVars, tokenBlacklist, timers,
                       revokedLive, loggedOut, jwtSecret>>

NextOptional == OptionalAuth \/ TokenTick

\* Specification SpecOptional: requests pass through optionalAuth
SpecOptional == InitTokens /\ [][NextOptional]_vars

NextCarriers == VerifyCarriers \/ TokenTick

SpecCarriers == InitTokens /\ [][NextCarriers]_vars

(***************************************************************************)
(* Specification SpecSecrets: the server runs with JWT_SECRET unset,       *)
(* empty, shorter than 32 characters or 32 characters long; tokens are     *)
(* issued (generateToken, as POST /auth/login calls it) and verified.      *)
(***************************************************************************)
SecretChoices ==
    {JsUndefined, JsString(<<>>), JsString([i \in 1..(MinSecretLength - 1) |-> "k"]),
     ServerSecret}

InitSecrets ==
    /\ now = 0
    /\ shapeIn = JsUndefined
    /\ shapeOut = NoResult
    /\ probeUser = JsNull
    /\ probeOut = NoResult
    /\ IdleLimiter
    /\ IdleGate
    /\ tokenBlacklist = {}
    /\ timers = {}
    /\ tkResp = NoTokenResponse
    /\ tkOps = 0
    /\ revokedLive = {}
    /\ loggedOut = {}
    /\ jwtSecret \in SecretChoices

\* POST /auth/login from line 260 on: generateToken(user); a throw is
\* answered 500 LOGIN_FAILED by the handler's catch
Issue ==
    \E expiresIn \in 0..MaxTokenSeconds :
        LET result == generateToken(jwtSecret, now, expiresIn) IN
        /\ TokenStep
        /\ tkResp' = IF result.err # ""
                      THEN TokenResponse("issue", 500, "LOGIN_FAILED", <<>>, HeaderOnly(JsUndefined))
                      ELSE TokenResponse("issue", 200, "TOKEN", result.token,
                                         HeaderOnly(JsUndefined))
        /\ UNCHANGED <<now, probeVars, rlVars, gateVars, tokenBlacklist, timers,
                       revokedLive, loggedOut, jwtSecret>>

NextSecrets == Issue \/ VerifyBearer \/ TokenTick

SpecSecrets == InitSecrets /\ [][NextSecrets]_vars

SpecTokens == InitTokens /\ [][NextTokens]_vars

(***************************************************************************)
(* Specification SpecShape: validateStreamKey applied to probe values      *)
(***************************************************************************)
MaxProbeLength == 102

ProbeChars == {"a", "Z", "0", "9", "_", "-", "<", ">", "{", "}", "[", "]", "\\",
               " ", ".", "@", "/", ":"}

\* a string of length len made of fill, with the character at pos replaced by c
ProbeString(len, fill, pos, c) == [i \in 1..len |-> IF i = pos THEN c ELSE fill]

ProbePositions(len) == {1, (len + 1) \div 2, len}

ShapeInputs ==
    {JsString(ProbeString(len, fill, pos, c)) :
        <<len, pos>> \in {<<l, p>> \in (0..MaxProbeLength) \X (1..MaxProbeLength) :
                              p \in ProbePositions(l)},
        fill \in {"a", "-"}, c \in ProbeChars}
    \cup {JsString(<<>>), JsUndefined, JsNull, JsNumber(0), JsNumber(1234567890),
          JsArray(ProbeString(12, "a", 1, "a"))}

InitShape ==
    /\ now = 0
    /\ shapeIn \in ShapeInputs
    /\ shapeOut = NoResult
    /\ probeUser = JsNull
    /\ probeOut = NoResult
    /\ IdleLimiter
    /\ IdleGate
    /\ IdleTokens

ValidateShape ==
    /\ shapeOut = NoResult
    /\ shapeOut' = <<validateStreamKey(shapeIn)>>
    /\ UNCHANGED <<now, shapeIn, probeUser, probeOut, rlVars, gateVars, tokenVars>>

(***************************************************************************)
(* Specification SpecKeyShape: the keys generated at registration and at   *)
(* rotation, for names with the shortest and the longest accepted length   *)
(* and every character class, handed to validateStreamKey.  Names that     *)
(* validateRegistration rejects get no key.                                *)
(***************************************************************************)
KeyNames ==
    {ProbeString(len, fill, pos, c) :
        <<len, pos>> \in {<<2, 1>>, <<3, 1>>, <<3, 2>>, <<20, 20>>, <<21, 1>>},
        fill \in {"a", "Z", "_", "7"}, c \in {"a", "Z", "_", "7", "-", "<", " "}}

KeyUuids == {Uuid(c) : c \in {"a", "0", "f", "9"}}

\* values of Date.now(): one, two and six digits in base 36
KeyTimes == {0, 35, 36, 2147483647}

InitKeyShape ==
    /\ now = 0
    /\ shapeIn = JsUndefined
    /\ shapeOut = NoResult
    /\ probeUser = JsNull
    /\ probeOut = NoResult
    /\ IdleLimiter
    /\ IdleGate
    /\ IdleTokens

\* the candidate key of POST /auth/register (for the name as sent) or of
\* POST /stream/regenerate-key (for the name as stored), validated
GenerateKey ==
    \E username \in KeyNames, uuid \in KeyUuids, timestamp \in KeyTimes,
       route \in {"register", "rotate"} :
        /\ validateRegistration(JsString(username), JsString(<<"s", "e", "c", "r", "e", "t">>))
        /\ shapeIn' = JsString(IF route = "register" THEN RegisterKey(username, uuid)
                                ELSE RotateKey(ToLowerCase(username), timestamp, uuid))
        /\ shapeOut' = <<validateStreamKey(shapeIn')>>
        /\ UNCHANGED <<now, probeUser, probeOut, rlVars, gateVars, tokenVars>>

SpecKeyShape == InitKeyShape /\ [][GenerateKey]_vars

(***************************************************************************)
(* Specification SpecStreaming: isUserStreaming applied to probe users     *)
(***************************************************************************)
MaxPeriods == 2

ProbeTimes ==
    {t \in {k * StreamTimeout + d : k \in 0..MaxPeriods, d \in -1..1} : t >= 0}

ProbeUsers ==
    {JsNull} \cup
    {[username |-> <<"a", "b", "c">>, lastStreamTime |-> lst] :
        lst \in {JsNull} \cup {JsNumber(t) : t \in ProbeTimes}}

InitStreaming ==
    /\ now \in ProbeTimes
    /\ shapeIn = JsUndefined
    /\ shapeOut = NoResult
    /\ probeUser \in ProbeUsers
    /\ probeOut = NoResult
    /\ IdleLimiter
    /\ IdleGate
    /\ IdleTokens

CheckStreaming ==
    /\ probeOut = NoResult
    /\ probeOut' = <<isUserStreaming(probeUser, now)>>
    /\ UNCHANGED <<now, shapeIn, shapeOut, probeUser, rlVars, gateVars, tokenVars>>


(***************************************************************************)
(* Specifications                                                          *)
(***************************************************************************)
SpecShape == InitShape /\ [][ValidateShape]_vars

SpecStreaming == InitStreaming /\ [][CheckStreaming]_vars

NextRateLimit == RateLimitRequest \/ RateLimitTick

Next ==
    \/ \E i \in Slots :
          \/ CanPublish /\ Receive /\ \E body \in Bodies : VerifyStart(i, body)
          \/ Resume /\ VerifyFound(i)
          \/ Resume /\ VerifyUpdated(i)
          \/ Receive /\ \E body \in Bodies : EndStart(i, body)
          \/ Resume /\ EndFound(i)
          \/ Resume /\ EndUpdated(i)
          \/ Receive /\ \E uid \in UserIds : StatusStart(i, uid)
          \/ Resume /\ StatusRead(i)
    \/ Tick

NextRotate ==
    \/ \E i \in Slots :
          \/ CanPublish /\ Receive /\ \E body \in Bodies : VerifyStart(i, body)
          \/ Resume /\ VerifyFound(i)
          \/ Resume /\ VerifyUpdated(i)
          \/ Receive /\ \E uid \in UserIds : RotateStart(i, uid)
          \/ Resume /\ RotateRead(i)
          \/ Resume /\ RotateChecked(i)
          \/ Resume /\ RotateUpdated(i)
    \/ Tick

NextPresence ==
    \/ \E i \in Slots :
          \/ CanPublish /\ Receive /\ \E body \in Bodies : VerifyStart(i, body)
          \/ Resume /\ VerifyFound(i)
          \/ Resume /\ VerifyUpdated(i)
          \/ Receive /\ \E body \in Bodies : EndStart(i, body)
          \/ Resume /\ EndFound(i)
          \/ Resume /\ EndUpdated(i)
          \/ Receive /\ \E username \in PublicNames : PublicStart(i, username)
          \/ Resume /\ PublicFound(i)
    \/ CleanupCache
    \/ Tick

NextAccounts ==
    \/ \E i \in Slots :
          \/ Receive /\ \E username \in RegisterNames, password \in RegisterPasswords :
                            RegisterStart(i, username, password)
          \/ Resume /\ RegisterExists(i)
          \/ Resume /\ RegisterChecked(i)
          \/ Resume /\ RegisterSaved(i)
          \/ Receive /\ \E uid \in AccountIds : RotateStart(i, uid)
          \/ Resume /\ RotateRead(i)
          \/ Resume /\ RotateChecked(i)
          \/ Resume /\ RotateUpdated(i)
    \/ Tick

\* verify, the owner's status and the public status
NextDisclosure ==
    \/ \E i \in Slots :
          \/ CanPublish /\ Receive /\ \E body \in Bodies : VerifyStart(i, body)
          \/ Resume /\ VerifyFound(i)
          \/ Resume /\ VerifyUpdated(i)
          \/ Receive /\ \E uid \in UserIds : StatusStart(i, uid)
          \/ Resume /\ StatusRead(i)
          \/ Receive /\ \E username \in PublicNames : PublicStart(i, username)
          \/ Resume /\ PublicFound(i)
    \/ Tick

SpecDisclosure == InitGate /\ [][NextDisclosure]_vars

\* Specification SpecOnline: two active users publish; the public status
\* of one user and the list of online users are read, with the cache sweep
OnlineUsers ==
    <<NewUser(1, Abc, RegisterKey(Abc, Uuid("a")), TRUE),
      NewUser(2, Xyz, RegisterKey(Xyz, Uuid("0")), TRUE)>>

\* the route is built with limitResults(50); with two users that bound is
\* never met, so the route is also built with arguments around the clamp
RouteLimits ==
    {JsUndefined, JsNumber(0), JsNumber(1), JsNumber(2), JsNumber(DefaultLimit),
     JsNumber(MaxLimit + 1)}

OnlineBodies ==
    {[name |-> JsString(OnlineUsers[id].streamKey), key |-> JsUndefined,
      stream_key |-> JsUndefined, streamKey |-> JsUndefined] : id \in DOMAIN OnlineUsers}

InitOnline ==
    /\ now = 0
    /\ shapeIn = JsUndefined
    /\ shapeOut = NoResult
    /\ probeUser = JsNull
    /\ probeOut = NoResult
    /\ IdleLimiter
    /\ IdleTokens
    /\ users = OnlineUsers
    /\ streamStatusCache = EmptyMap
    /\ onlineUsersCache = EmptyMap
    /\ routeLimit \in RouteLimits
    /\ reqs = [i \in Slots |-> Idle]
    /\ resp = NoReply
    /\ phase = [id \in DOMAIN OnlineUsers |-> [tag |-> "never", at |-> 0, allowed |-> <<>>]]
    /\ started = 0

NextOnline ==
    \/ \E i \in Slots :
          \/ CanPublish /\ Receive /\ \E body \in OnlineBodies : VerifyStart(i, body)
          \/ Resume /\ VerifyFound(i)
          \/ Resume /\ VerifyUpdated(i)
          \/ Receive /\ PublicStart(i, Abc)
          \/ Resume /\ PublicFound(i)
          \/ Receive /\ OnlineStart(i)
          \/ Resume /\ OnlineFound(i)
    \/ CleanupCache
    \/ Tick

SpecOnline == InitOnline /\ [][NextOnline]_vars

\* the instants of the clock of the stream routes
GateInstants == {k * StreamTimeout + m : k \in 0..MaxSpans, m \in 0..MaxMillis}

\* Specification SpecPublic: verifications and public status lookups, with
\* the cache sweep, on a clock that also stops a millisecond before a timeout
PublicInstants == GateInstants \cup {k * StreamTimeout - 1 : k \in 1..MaxSpans}

TickTo ==
    /\ \E t \in PublicInstants : t > now /\ now' = t
    /\ UNCHANGED <<probeVars, rlVars, gateVars, tokenVars>>

NextPublic ==
    \/ \E i \in Slots :
          \/ CanPublish /\ Receive /\ \E body \in Bodies : VerifyStart(i, body)
          \/ Resume /\ VerifyFound(i)
          \/ Resume /\ VerifyUpdated(i)
          \/ Receive /\ \E username \in PublicNames : PublicStart(i, username)
          \/ Resume /\ PublicFound(i)
    \/ CleanupCache
    \/ TickTo

SpecPublic == InitGate /\ [][NextPublic]_vars

\* Specification SpecFallback: the verify and end routes with the stand-in
\* middleware, and registrations (auth.js does not use streamMiddleware)
NextFallback ==
    \/ \E i \in Slots :
          \/ Receive /\ \E body \in Bodies : VerifyStartFallback(i, body)
          \/ Receive /\ \E body \in Bodies : EndStartFallback(i, body)
          \/ Resume /\ VerifyFound(i)
          \/ Receive /\ \E username \in RegisterNames, password \in RegisterPasswords :
                            RegisterStart(i, username, password)
          \/ Resume /\ RegisterExists(i)
          \/ Resume /\ RegisterChecked(i)
          \/ Resume /\ RegisterSaved(i)
    \/ Tick

SpecFallback == InitGate /\ [][NextFallback]_vars

\* Specification SpecFailures: the six stream operations, each store call of
\* which may reject
NextFailures ==
    \E i \in Slots :
       \/ CanPublish /\ Receive /\ \E body \in Bodies : VerifyStart(i, body)
       \/ Resume /\ VerifyFound(i)
       \/ Resume /\ VerifyUpdated(i)
       \/ Receive /\ \E body \in Bodies : EndStart(i, body)
       \/ Resume /\ EndFound(i)
       \/ Resume /\ EndUpdated(i)
       \/ Receive /\ \E uid \in UserIds : StatusStart(i, uid)
       \/ Resume /\ StatusRead(i)
       \/ Receive /\ \E uid \in UserIds : RotateStart(i, uid)
       \/ Resume /\ RotateRead(i)
       \/ Resume /\ RotateChecked(i)
       \/ Resume /\ RotateUpdated(i)
       \/ Receive /\ \E username \in PublicNames : PublicStart(i, username)
       \/ Resume /\ PublicFound(i)
       \/ Receive /\ OnlineStart(i)
       \/ Resume /\ OnlineFound(i)
       \/ Resume /\ StoreFails(i)

SpecFailures == InitGate /\ [][NextFailures]_vars

\* Specification SpecSweep: SpecOnline with the interval timer of
\* cleanupCache firing again and again
SpecSweep == InitOnline /\ [][NextOnline]_vars /\ WF_vars(CleanupCache)

SpecAccounts == InitAccounts /\ [][NextAccounts]_vars

SpecRotate == InitGate /\ [][NextRotate]_vars

SpecPresence == InitGate /\ [][NextPresence]_vars

Spec == InitGate /\ [][Next]_vars

SpecRateLimit == InitRateLimit /\ [][NextRateLimit]_vars

(***************************************************************************)
(* C3: validateStreamKey(s) is true exactly for strings of length 10..100  *)
(* whose characters are all letters, digits, "_" or "-" and none of which  *)
(* is one of < > { } [ ] \ ; it is false for every other value, non-string *)
(* and empty values included.                                              *)
(***************************************************************************)
ShapeGrammar(v) ==
    /\ v.t = "string"
    /\ Len(v.s) \in 10..100
    /\ \A i \in 1..Len(v.s) :
          /\ v.s[i] \in Range(LowerSeq) \cup Range(UpperSeq) \cup Range(DigitSeq) \cup {"_", "-"}
          /\ v.s[i] \notin {"<", ">", "{", "}", "[", "]", "\\"}

C3_ShapeExact == shapeOut # NoResult => (shapeOut[1] = ShapeGrammar(shapeIn))

C3_Witness ==
    /\ shapeOut = <<TRUE>>
    /\ shapeIn.t = "string"
    /\ Len(shapeIn.s) = 100
    /\ \E i \in 1..Len(shapeIn.s) : shapeIn.s[i] = "-"

(***************************************************************************)
(* C7: isUserStreaming(user) is true if and only if the user has a         *)
(* lastStreamTime with 0 <= now - lastStreamTime < 60000 ms; it is false   *)
(* when lastStreamTime is absent and when it lies in the future.           *)
(***************************************************************************)
C7_StreamingExact ==
    probeOut # NoResult =>
        (probeOut[1] = (/\ probeUser # JsNull
                        /\ probeUser.lastStreamTime # JsNull
                        /\ 0 <= now - probeUser.lastStreamTime.n
                        /\ now - probeUser.lastStreamTime.n < 60000))

C7_Witness ==
    /\ probeOut = <<FALSE>>
    /\ probeUser # JsNull
    /\ probeUser.lastStreamTime # JsNull
    /\ probeUser.lastStreamTime.n > now

(***************************************************************************)
(* History of one identifier's checks, for the rate limiter claims         *)
(***************************************************************************)
Identifiers == {Identifier(addr[1], addr[2]) : addr \in ClientAddresses}

ChecksOf(identifier) ==
    LET Mine(h) == h.id = identifier IN SelectSeq(rlHist, Mine)

SetMin(S) == CHOOSE x \in S : \A y \in S : x <= y

\* the instants of the checks before the j-th that were allowed and lie less
\* than windowMs before it: the requests counted against the j-th check
CountedAt(H, j) ==
    {H[i].at : i \in {i \in 1..(j - 1) : H[i].ok /\ H[i].at > H[j].at - windowMs}}

(***************************************************************************)
(* C9: the first maxRequests checks of an identifier made within a span    *)
(* shorter than windowMs are all allowed, the next check within that span  *)
(* is denied with RATE_LIMIT_EXCEEDED, and the first check made once       *)
(* windowMs has elapsed since the earliest counted request is allowed.     *)
(***************************************************************************)
C9_WindowScenario ==
    \A identifier \in Identifiers :
        LET H == ChecksOf(identifier) IN
        /\ \A k \in 1..Len(H) :
              (k <= maxRequests /\ H[k].at - H[1].at < windowMs) => H[k].ok
        /\ (Len(H) > maxRequests /\ H[maxRequests + 1].at - H[1].at < windowMs)
              => ~H[maxRequests + 1].ok
        /\ \A j \in 1..Len(H) : \A k \in (j + 1)..Len(H) :
              (/\ ~H[j].ok
               /\ CountedAt(H, j) # {}
               /\ H[k].at >= SetMin(CountedAt(H, j)) + windowMs
               /\ \A i \in (j + 1)..(k - 1) : H[i].at < SetMin(CountedAt(H, j)) + windowMs)
              => H[k].ok
        /\ (rlResp.id = identifier /\ rlResp.status = 429)
              => (rlResp.code = "RATE_LIMIT_EXCEEDED" /\ ~H[Len(H)].ok)

C9_Witness ==
    \E identifier \in Identifiers :
        LET H == ChecksOf(identifier) IN
        /\ maxRequests = 2
        /\ Len(H) = 4
        /\ H[1].ok /\ H[2].ok /\ ~H[3].ok /\ H[4].ok
        /\ H[3].at - H[1].at < windowMs
        /\ H[4].at = H[1].at + windowMs

(***************************************************************************)
(* C10: for every identifier and every time interval of windowMs           *)
(* milliseconds [a, a + windowMs), the number of checks of that identifier *)
(* allowed inside the interval is at most maxRequests.  (An interval that  *)
(* contains allowed checks is covered by the one starting at the first of  *)
(* them, so the intervals starting at an allowed check suffice.)           *)
(***************************************************************************)
AllowedWithin(H, a) ==
    Cardinality({i \in 1..Len(H) : H[i].ok /\ a <= H[i].at /\ H[i].at < a + windowMs})

C10_SlidingWindowExact ==
    \A identifier \in Identifiers :
        LET H == ChecksOf(identifier) IN
        \A j \in 1..Len(H) : H[j].ok => AllowedWithin(H, H[j].at) <= maxRequests

C10_Witness ==
    \E identifier \in Identifiers :
        LET H == ChecksOf(identifier) IN
        \E j \in 1..Len(H) : \E k \in 1..Len(H) :
            /\ H[j].ok
            /\ AllowedWithin(H, H[j].at) = maxRequests
            /\ ~H[k].ok
            /\ H[j].at <= H[k].at /\ H[k].at < H[j].at + windowMs
            /\ H[k].at > H[j].at

(***************************************************************************)
(* C1: a publish verification that carries a key answers 200, for the      *)
(* user holding the key, exactly when the key passes validateStreamKey, a  *)
(* user record holds exactly that streamKey and that record has isActive   *)
(* true; every other answer is a non-200 denial whose code is that of the  *)
(* first failing gate in the order shape, lookup, isActive.  (A request    *)
(* without a key is answered MISSING_STREAM_KEY before any gate.)          *)
(***************************************************************************)
FirstFailingGate(o) ==
    IF ~o.shape THEN "INVALID_STREAM_KEY_FORMAT"
    ELSE IF ~o.found THEN "INVALID_STREAM_KEY"
    ELSE "ACCOUNT_DISABLED"

C1_GateOrder ==
    (resp.op = "verify" /\ resp.code # "MISSING_STREAM_KEY") =>
        LET o == resp.obs IN
        /\ (resp.status = 200) <=> (o.shape /\ o.found /\ o.active)
        /\ resp.status = 200 => resp.uid = o.owner
        /\ resp.status # 200 => /\ resp.status \in {400, 403}
                                /\ resp.code = FirstFailingGate(o)

C1_Witness ==
    /\ resp.op = "verify" /\ resp.status = 403 /\ resp.code = "ACCOUNT_DISABLED"
    /\ resp.obs.shape /\ resp.obs.found /\ ~resp.obs.active
    /\ \E id \in UserIds : phase[id].tag = "live"

(***************************************************************************)
(* C2: after any interleaving of registrations and key rotations, no two   *)
(* user records hold the same streamKey and validateStreamKey is true of   *)
(* every stored streamKey.                                                 *)
(***************************************************************************)
C2_KeysUniqueAndShaped ==
    \A a \in UserIds :
        /\ validateStreamKey(JsString(users[a].streamKey))
        /\ \A b \in UserIds : a # b => users[a].streamKey # users[b].streamKey

C2_Witness ==
    /\ Len(users) >= 2
    /\ \E a \in UserIds : users[a].streamKeyUpdatedAt # JsNull

(***************************************************************************)
(* C4: a user's streamKey is never replaced while isUserStreaming is true  *)
(* of that user's record (rotation is refused with STREAMING_IN_PROGRESS). *)
(***************************************************************************)
C4_NoRotationWhileLive ==
    [][\A id \in UserIds :
          users'[id].streamKey # users[id].streamKey => ~isUserStreaming(users[id], now)]_vars

(***************************************************************************)
(* C5: a status request answered after a verification was allowed for the  *)
(* user, less than 60 s later and with no end callback since, reports      *)
(* isStreaming true; a status request answered after an end callback for   *)
(* the user's key (and no later allowed verification) reports false.       *)
(***************************************************************************)
C5_StatusFollowsCallbacks ==
    [][\A i \in Slots :
          (/\ reqs[i].op = "status" /\ reqs[i].pc = "findById" /\ reqs'[i] = Idle
           /\ reqs[i].uid \in UserIds)
          => LET p == phase[reqs[i].uid] IN
             /\ (p.tag = "live" /\ now - p.at < StreamTimeout) => resp'.live = <<TRUE>>
             /\ p.tag = "ended" => resp'.live = <<FALSE>>]_vars

(***************************************************************************)
(* C6: the presence cache as the public status route reads it (an entry is *)
(* served only while younger than CACHE_TTL) gives true for a username     *)
(* right after an allowed verification recorded it, false right after an   *)
(* end callback recorded it, and never true for an entry recorded more     *)
(* than CACHE_TTL ago.                                                     *)
(***************************************************************************)
PresenceRead(cache, name, currentTime) ==
    IF CacheFresh(cache, name, currentTime) THEN <<cache[name].isStreaming>> ELSE <<>>

C6_PresenceReads ==
    [][/\ \A i \in Slots :
             /\ (reqs[i].op = "verify" /\ reqs[i].pc = "updateOne" /\ reqs'[i] = Idle)
                => PresenceRead(streamStatusCache', reqs[i].user.username, now') = <<TRUE>>
             /\ (reqs[i].op = "end" /\ reqs[i].pc = "updateOne" /\ reqs'[i] = Idle)
                => PresenceRead(streamStatusCache', reqs[i].user.username, now') = <<FALSE>>
       /\ \A name \in DOMAIN streamStatusCache' :
             now' - streamStatusCache'[name].timestamp > CACHE_TTL
             => PresenceRead(streamStatusCache', name, now') # <<TRUE>>]_vars

C6_Witness ==
    /\ \E name \in DOMAIN streamStatusCache :
          /\ streamStatusCache[name].isStreaming
          /\ now - streamStatusCache[name].timestamp > CACHE_TTL
    /\ \E id \in UserIds : phase[id].tag = "ended"

(***************************************************************************)
(* C8: every end callback that carries a key, known or unknown, is         *)
(* answered 200.                                                           *)
(***************************************************************************)
C8_EndNeverErrors ==
    (resp.op = "end" /\ resp.code # "MISSING_STREAM_KEY") => resp.status = 200

(***************************************************************************)
(* C11: a denied check reports retryAfter = ceil((oldest + windowMs - now) *)
(* / 1000), oldest being the oldest request still counted, and this is at  *)
(* least 1; every later check of the identifier made before oldest +       *)
(* windowMs is denied; and the first check of the identifier made          *)
(* retryAfter seconds or more after the denial, no check of the identifier *)
(* having been allowed in between, is allowed.                             *)
(***************************************************************************)
\* the least number of whole seconds that cover ms milliseconds
SecondsCovering(ms) ==
    CHOOSE n \in 0..(ms + 1) : n * 1000 >= ms /\ (n - 1) * 1000 < ms

C12_EveryRequestChecked == Len(rlHist) >= started

(***************************************************************************)
(* C13: a verify of a token to which addToBlacklist was applied while it   *)
(* was unexpired, made before the token's expiry, is answered              *)
(* TOKEN_REVOKED.                                                          *)
(***************************************************************************)
C13_RevokedRejected ==
    (/\ tkResp.op = "verify"
     /\ tkResp.token \in revokedLive
     /\ Unexpired(tkResp.token, tkResp.at))
    => (tkResp.status = 401 /\ tkResp.code = "TOKEN_REVOKED")

(***************************************************************************)
(* C14: expired and revoked are terminal: no verify of a token whose       *)
(* expiry has passed, or to which addToBlacklist was applied while it was  *)
(* unexpired, succeeds, whatever the token's lifetime and also after the   *)
(* timer has removed its entry from the revocation set.                    *)
(***************************************************************************)
HasExpired(token, currentTime) ==
    /\ JwtDecode(token) # JsNull
    /\ JwtDecode(token).exp.t = "number"
    /\ ~Unexpired(token, currentTime)

C14_TerminalStates ==
    (/\ tkResp.op = "verify"
     /\ tkResp.token \in revokedLive \/ HasExpired(tkResp.token, tkResp.at))
    => tkResp.status # 200

(***************************************************************************)
(* C15: addToBlacklist(token) adds the token to the revocation set exactly *)
(* when the token has an expiry that lies strictly after the current       *)
(* instant; for an expired token, a token without expiry or a string that  *)
(* does not decode, the set is left unchanged; the call always returns.    *)
(***************************************************************************)
C15_RevokeOnlyUnexpired ==
    [][(tkOps' # tkOps /\ tkResp'.op = "revoke")
       => /\ tokenBlacklist' = IF Unexpired(tkResp'.token, now)
                               THEN tokenBlacklist \cup {tkResp'.token}
                               ELSE tokenBlacklist
          /\ tkResp'.code = "RETURNED"]_vars

C15_Witness ==
    /\ tkResp.op = "revoke" /\ tkResp.token = <<"G", "1">> /\ tkResp.at = 1000
    /\ tkResp.token \notin tokenBlacklist
    /\ <<"G", "2">> \in tokenBlacklist

(***************************************************************************)
(* C16: an entry leaves the revocation set only once its token's expiry    *)
(* instant has been reached, never before.                                 *)
(***************************************************************************)
C16_RemovedAtExpiry ==
    [][\A token \in tokenBlacklist :
          token \notin tokenBlacklist' => ~Unexpired(token, now)]_vars

(***************************************************************************)
(* C17: after POST /auth/logout answered 200 for a token, a verify of that *)
(* token made before the token's expiry is answered TOKEN_REVOKED.         *)
(***************************************************************************)
C17_LogoutRevokes ==
    (/\ tkResp.op = "verify"
     /\ tkResp.token \in loggedOut
     /\ Unexpired(tkResp.token, tkResp.at))
    => (tkResp.status = 401 /\ tkResp.code = "TOKEN_REVOKED")

(***************************************************************************)
(* C18: verifyToken takes the token from the first non-empty carrier in    *)
(* the order Authorization Bearer header, query token, body token, cookie  *)
(* token, and answers NO_TOKEN exactly when all four are absent or empty.  *)
(***************************************************************************)
CarrierContents(req) ==
    <<IF req.authorization.t = "string" /\ StartsWith(req.authorization.s, BearerPrefix)
      THEN SubSeq(req.authorization.s, Len(BearerPrefix) + 1, Len(req.authorization.s))
      ELSE <<>>,
      IF req.query.t = "string" THEN req.query.s ELSE <<>>,
      IF req.body.t = "string" THEN req.body.s ELSE <<>>,
      IF req.cookie.t = "string" THEN req.cookie.s ELSE <<>>>>

C18_CarrierPriority ==
    tkResp.op = "verify" =>
        LET carried == CarrierContents(tkResp.req) IN
        /\ \A i \in 1..4 :
              (carried[i] # <<>> /\ \A j \in 1..(i - 1) : carried[j] = <<>>)
              => tkResp.token = carried[i]
        /\ (tkResp.code = "NO_TOKEN") <=> (\A i \in 1..4 : carried[i] = <<>>)

C18_Witness ==
    /\ tkResp.op = "verify"
    /\ tkResp.req.authorization = JsString(BearerPrefix)
    /\ tkResp.req.query = JsString(<<>>)
    /\ tkResp.req.body = JsString(BodyToken)
    /\ tkResp.req.cookie = JsString(CookieToken)
    /\ tkResp.token = BodyToken /\ tkResp.status = 200

(***************************************************************************)
(* C19: verifyToken answers TOKEN_EXPIRED for every correctly signed token *)
(* whose expiry is not later than the instant of the verify; a token       *)
(* generated with expiresIn = 0 is never accepted.                         *)
(***************************************************************************)
CorrectlySigned(token) == JwtDecode(token) # JsNull /\ token[1] \in SignedKinds

C19_ExpiredRejected ==
    tkResp.op \in {"verify", "logout"} =>
        /\ (CorrectlySigned(tkResp.token) /\ HasExpired(tkResp.token, tkResp.at))
           => (tkResp.status = 401 /\ tkResp.code = "TOKEN_EXPIRED")
        /\ \A issuedAt \in TokenInstants :
              (issuedAt <= tkResp.at /\ tkResp.token = generateToken(jwtSecret, issuedAt, 0).token)
              => tkResp.status # 200

C19_Witness ==
    /\ tkResp.op = "verify" /\ tkResp.at = 1000
    /\ tkResp.token = generateToken(jwtSecret, 1000, 0).token
    /\ tkResp.code = "TOKEN_EXPIRED"

(***************************************************************************)
(* C20: verifyToken accepts only tokens whose issuer and audience claims   *)
(* equal the expected issuer and audience.                                 *)
(***************************************************************************)
C20_IssuerAudienceRequired ==
    (tkResp.op \in {"verify", "logout"} /\ tkResp.status = 200)
    => /\ JwtDecode(tkResp.token).iss = JsString(ExpectedIssuer)
       /\ JwtDecode(tkResp.token).aud = JsString(ExpectedAudience)

(***************************************************************************)
(* C21: for every correctly signed, unexpired token that lacks the id or   *)
(* the username claim, verifyToken answers 401 INVALID_TOKEN_FORMAT,       *)
(* attaches no req.user and does not call next().                          *)
(***************************************************************************)
C21_InvalidPayload ==
    (/\ tkResp.op \in {"verify", "logout"}
     /\ CorrectlySigned(tkResp.token)
     /\ ~HasExpired(tkResp.token, tkResp.at)
     /\ \/ JwtDecode(tkResp.token).id = JsUndefined
        \/ JwtDecode(tkResp.token).username = JsUndefined)
    => /\ tkResp.status = 401 /\ tkResp.code = "INVALID_TOKEN_FORMAT"
       /\ tkResp.user = <<>>
       /\ ~tkResp.next

C21_Witness ==
    /\ tkResp.op = "verify" /\ tkResp.token = <<"U", "1">> /\ tkResp.at = 999
    /\ tkResp.code = "INVALID_TOKEN_FORMAT"

(***************************************************************************)
(* C22: when verifyToken accepts, the expires-soon headers are set exactly *)
(* when the token's expiry lies less than 3600 whole seconds after the     *)
(* clock's second; with or without them the request proceeds: next() is    *)
(* called with req.user holding the token's claims.  Headers are set only  *)
(* when less than an hour remains to the millisecond (the expiry is less   *)
(* than 3600 s after the clock rounded up to a whole second).              *)
(***************************************************************************)
C22_ExpiresSoon ==
    (tkResp.op \in {"verify", "logout"} /\ tkResp.status = 200)
    => LET decoded == JwtDecode(tkResp.token)
           hasExp == decoded.exp.t = "number"
       IN
       /\ (tkResp.headers # <<>>)
          <=> (hasExp /\ decoded.exp.n - (tkResp.at \div 1000) < 3600)
       /\ tkResp.headers # <<>> => decoded.exp.n - CeilDiv(tkResp.at, 1000) < 3600
       /\ tkResp.next
       /\ tkResp.user = <<[id |-> decoded.id, username |-> decoded.username,
                            exp |-> decoded.exp]>>

C22_Witness ==
    /\ tkResp.op = "verify" /\ tkResp.status = 200 /\ tkResp.next
    /\ tkResp.token = <<"G", "i">> /\ tkResp.at = 2000
    /\ tkResp.headers # <<>>

C22_WitnessNotSoon ==
    /\ tkResp.op = "verify" /\ tkResp.status = 200 /\ tkResp.next
    /\ tkResp.token = <<"G", "i">> /\ tkResp.at = 1999
    /\ tkResp.headers = <<>>

(***************************************************************************)
(* C23: with JWT_SECRET unset or empty, generateToken always fails and no  *)
(* token is issued, and verifyToken accepts no token; with a secret of     *)
(* any length, also one shorter than 32 characters, tokens are issued and  *)
(* a correctly signed, unexpired token carrying the claims generateToken   *)
(* embeds is accepted, and no answer is SERVER_CONFIG_ERROR.               *)
(***************************************************************************)
C23_SecretRequired ==
    /\ ~Truthy(jwtSecret) =>
          /\ tkResp.op = "issue" => (tkResp.status = 500 /\ tkResp.token = <<>>)
          /\ tkResp.op = "verify" => (tkResp.status # 200 /\ ~tkResp.next /\ tkResp.user = <<>>)
    /\ Truthy(jwtSecret) =>
          /\ tkResp.op = "issue" =>
                /\ tkResp.status = 200
                /\ CorrectlySigned(tkResp.token)
                /\ JwtDecode(tkResp.token).iss = JsString(ExpectedIssuer)
                /\ JwtDecode(tkResp.token).aud = JsString(ExpectedAudience)
          /\ tkResp.op = "verify" =>
                /\ tkResp.code # "SERVER_CONFIG_ERROR"
                /\ (/\ CorrectlySigned(tkResp.token)
                    /\ tkResp.token[1] = "G"
                    /\ Unexpired(tkResp.token, tkResp.at))
                   => (tkResp.status = 200 /\ tkResp.next)

C23_Witness ==
    /\ jwtSecret.t = "string" /\ Len(jwtSecret.s) = 31
    /\ tkResp.op = "verify" /\ tkResp.token = <<"G", "2">> /\ tkResp.status = 200

C23_WitnessAbsent ==
    /\ jwtSecret = JsUndefined
    /\ tkResp.op = "verify" /\ tkResp.token = <<"G", "L">>
    /\ tkResp.status = 500 /\ tkResp.code = "SERVER_CONFIG_ERROR"

(***************************************************************************)
(* C24: each lookup of a candidate key, at registration and at rotation,   *)
(* is at most the fifth of its request; a candidate the store does not     *)
(* hold goes on to be written unchanged; a held candidate is replaced by a *)
(* new one after lookups one to four, and after the fifth the request is   *)
(* answered 500 (STREAM_)KEY_GENERATION_FAILED; no lookup changes the      *)
(* store, and only a fifth colliding lookup produces that answer.          *)
(***************************************************************************)
KeyLoop(r) == r.op \in {"rotate", "register"} /\ r.pc = "findOne"

GenerationFailed == {"KEY_GENERATION_FAILED", "STREAM_KEY_GENERATION_FAILED"}

C24_BoundedAttempts ==
    [][/\ \A i \in Slots :
            LET r == reqs[i]
                unused == \A id \in UserIds : users[id].streamKey # r.newKey
            IN
            (KeyLoop(r) /\ reqs'[i] # r) =>
                /\ r.attempts < 5
                /\ users' = users
                /\ unused => /\ reqs'[i].pc \in {"updateOne", "save"}
                             /\ reqs'[i].newKey = r.newKey
                /\ (~unused /\ r.attempts < 4) => /\ KeyLoop(reqs'[i])
                                                   /\ reqs'[i].attempts = r.attempts + 1
                /\ (~unused /\ r.attempts = 4) => /\ reqs'[i] = Idle
                                                   /\ resp'.status = 500
                                                   /\ resp'.code \in GenerationFailed
       /\ (reqs' # reqs /\ resp'.code \in GenerationFailed
           /\ \E i \in Slots : reqs[i] # Idle /\ reqs'[i] = Idle)
          => \E i \in Slots : /\ KeyLoop(reqs[i]) /\ reqs[i].attempts = 4
                               /\ reqs'[i] = Idle
                               /\ \E id \in UserIds : users[id].streamKey = reqs[i].newKey
      ]_vars

C24_Witness == resp.op = "rotate" /\ resp.code = "KEY_GENERATION_FAILED"

C24_WitnessRegister == resp.op = "register" /\ resp.code = "STREAM_KEY_GENERATION_FAILED"

(***************************************************************************)
(* C25: every key generated for a name that validateRegistration accepts,  *)
(* at registration and at rotation, satisfies validateStreamKey.           *)
(***************************************************************************)
C25_GeneratedKeysValid == shapeOut # NoResult => shapeOut[1]

C25_Witness ==
    /\ shapeOut = <<TRUE>>
    /\ Len(shapeIn.s) = 20 + 1 + 6 + 1 + 16
    /\ \A k \in 1..20 : shapeIn.s[k] = "_"

C25_WitnessRegister ==
    /\ shapeOut = <<TRUE>>
    /\ Len(shapeIn.s) = 3 + 1 + 36
    /\ shapeIn.s[1] = "Z"

(***************************************************************************)
(* C26: when the write of a freshly generated key is rejected by the       *)
(* unique index on streamKey, the request goes back to the key loop with a *)
(* new candidate instead of being answered.                                *)
(***************************************************************************)
C26_RetryOnRejectedWrite ==
    [][\A i \in Slots :
          LET r == reqs[i]
              id == IF r.op = "rotate" THEN r.user.id ELSE Len(users) + 1
          IN
          (/\ r.op \in {"rotate", "register"} /\ r.pc \in {"updateOne", "save"}
           /\ reqs'[i] # r
           /\ StreamKeyIndexRejects(id, r.newKey))
          => (KeyLoop(reqs'[i]) /\ reqs'[i].newKey # r.newKey)]_vars

(***************************************************************************)
(* C27: the step in which a verify is answered 200 adds exactly one to the *)
(* streamCount the store holds for the user at that instant, whatever the  *)
(* request read earlier, and sets lastStreamTime to the instant the update *)
(* was sent; no other step changes a streamCount.                          *)
(***************************************************************************)
C27_AtomicIncrement ==
    [][\A id \in UserIds :
          IF \E i \in Slots : /\ reqs[i].op = "verify" /\ reqs[i].pc = "updateOne"
                               /\ reqs[i].user.id = id
                               /\ reqs'[i] = Idle
          THEN /\ resp'.op = "verify" /\ resp'.status = 200
               /\ users'[id].streamCount = users[id].streamCount + 1
               /\ \E i \in Slots : /\ reqs[i].pc = "updateOne" /\ reqs'[i] = Idle
                                     /\ users'[id].lastStreamTime = JsNumber(reqs[i].date)
          ELSE users'[id].streamCount = users[id].streamCount]_vars

\* one verify has been answered while another, which read the user before
\* that, still waits for its update
C27_Witness ==
    \E i \in Slots :
        /\ reqs[i].op = "verify" /\ reqs[i].pc = "updateOne"
        /\ reqs[i].user.streamCount = 0
        /\ users[reqs[i].user.id].streamCount = 1
        /\ resp.op = "verify" /\ resp.status = 200

(***************************************************************************)
(* C28: the data of a public status response, served from the cache or     *)
(* from the store, has no streamKey field, and no stored stream key occurs *)
(* in its username or watchUrl; the data of a status response for the      *)
(* token's user carries that user's stream key.                            *)
(***************************************************************************)
Occurs(sub, str) ==
    \E k \in 0..(Len(str) - Len(sub)) : SubSeq(str, k + 1, k + Len(sub)) = sub

C28_PublicHidesKey ==
    /\ (resp.op = "public" /\ resp.data # <<>>)
       => /\ resp.data[1].streamKey = <<>>
          /\ \A id \in UserIds :
                /\ ~Occurs(users[id].streamKey, resp.data[1].username)
                /\ ~Occurs(users[id].streamKey, resp.data[1].watchUrl)
    /\ (resp.op = "public" /\ resp.status = 200) => resp.data # <<>>
    /\ (resp.op = "status" /\ resp.status = 200)
       => (resp.data # <<>> /\ resp.data[1].streamKey = <<users[resp.uid].streamKey>>)

C28_Witness ==
    /\ resp.op = "public" /\ resp.code = "OK" /\ resp.data # <<>>
    /\ resp.data[1].isStreaming

C28_WitnessCached ==
    /\ resp.op = "public" /\ resp.code = "CACHED" /\ resp.data # <<>>
    /\ resp.data[1].isStreaming

(***************************************************************************)
(* C29: for every limit the list of online users is built with, the        *)
(* effective limit is min(max(limit, 1), 100), 50 when none is given, and  *)
(* every answer of the list of online users holds at most that many users. *)
(***************************************************************************)
EffectiveLimit ==
    IF routeLimit.t = "undefined" THEN 50
    ELSE IF routeLimit.n < 1 THEN 1
    ELSE IF routeLimit.n > 100 THEN 100
    ELSE routeLimit.n

C29_LimitHonoured ==
    /\ \A i \in Slots : reqs[i].op = "online" => reqs[i].resultLimit = EffectiveLimit
    /\ (resp.op = "online" /\ resp.status = 200)
          => /\ Len(resp.data[1].users) <= EffectiveLimit
             /\ resp.data[1].onlineCount = Len(resp.data[1].users)
    /\ \A key \in DOMAIN onlineUsersCache :
          Len(onlineUsersCache[key].data.users) <= EffectiveLimit

\* two users are online and the answer, cut at the limit, lists one of them
C29_Witness ==
    /\ resp.op = "online" /\ resp.code = "OK"
    /\ Len(resp.data[1].users) = EffectiveLimit /\ EffectiveLimit < Len(users)
    /\ \A id \in UserIds : phase[id].tag = "live" /\ now - users[id].lastStreamTime.n < 60000

\* an answer from the cache, within the limit
C29_WitnessCached ==
    /\ resp.op = "online" /\ resp.code = "CACHED"
    /\ Len(resp.data[1].users) = EffectiveLimit

(***************************************************************************)
(* C30: a run of the cache sweep changes the result of no cache read, made *)
(* at the instant of the sweep or later, of the public status route or of  *)
(* the list of online users: every entry it deletes is one those reads     *)
(* already treat as absent.                                                *)
(***************************************************************************)
CacheRead(cache, key, currentTime) ==
    IF CacheFresh(cache, key, currentTime) THEN <<cache[key]>> ELSE <<>>


C30_SweepInvisible ==
    [][(reqs' = reqs /\ now' = now)
       => \A t \in GateInstants :
             t >= now =>
                /\ \A name \in DOMAIN streamStatusCache :
                      CacheRead(streamStatusCache', name, t)
                         = CacheRead(streamStatusCache, name, t)
                /\ \A key \in DOMAIN onlineUsersCache :
                      CacheRead(onlineUsersCache', key, t)
                         = CacheRead(onlineUsersCache, key, t)]_vars

\* the sweep has removed the entries of both caches
C30_Witness ==
    /\ now > CACHE_TTL
    /\ streamStatusCache = EmptyMap /\ onlineUsersCache = EmptyMap
    /\ resp.op = "online" /\ resp.code = "OK"
    /\ \E id \in UserIds : phase[id].tag = "live"

(***************************************************************************)
(* C31: with the interval timer firing again and again, every entry of the *)
(* stream-status cache and of the online-users cache that has become older *)
(* than the TTL is eventually removed by the sweep; a handler that sets    *)
(* the key again before the timer fires has replaced the entry by then.    *)
(***************************************************************************)
Stale(cache, key) == MapHas(cache, key) /\ now - cache[key].timestamp > CACHE_TTL

C31_StaleRemoved ==
    /\ \A name \in {Abc, Xyz} :
          Stale(streamStatusCache, name) ~> ~Stale(streamStatusCache, name)
    /\ Stale(onlineUsersCache, OnlineKey) ~> ~Stale(onlineUsersCache, OnlineKey)

\* entries of both caches have become older than the TTL
C31_Witness ==
    /\ \E name \in {Abc, Xyz} : Stale(streamStatusCache, name)
    /\ Stale(onlineUsersCache, OnlineKey)

(***************************************************************************)
(* C32: when a store call of verify, end, status, rotate, public status or *)
(* the online list rejects, the request ends with one 500 answer of its    *)
(* own handler, never an Allow, and both caches are left as they were.     *)
(***************************************************************************)
C32_StoreFailureAnswered ==
    [][\A i \in Slots :
          (reqs[i].op \in StreamOps /\ reqs'[i] = Idle /\ resp'.thrown)
          => /\ resp'.op = reqs[i].op
             /\ resp'.status = 500
             /\ resp'.code \in {"INTERNAL_SERVER_ERROR", "", "STATUS_FETCH_FAILED",
                                "KEY_REGENERATION_FAILED", "PUBLIC_INFO_FETCH_FAILED",
                                "ONLINE_USERS_FETCH_FAILED"}
             /\ resp'.data = <<>> /\ resp'.live = <<>>
             /\ streamStatusCache' = streamStatusCache
             /\ onlineUsersCache' = onlineUsersCache
             /\ \A j \in Slots \ {i} : reqs'[j] = reqs[j]]_vars

\* the updateOne of a verify rejected after its findOne found an active user
C32_Witness ==
    /\ resp.op = "verify" /\ resp.thrown /\ resp.status = 500
    /\ resp.obs.active
    /\ ~MapHas(streamStatusCache, users[resp.obs.owner].username)

(***************************************************************************)
(* C33: no two user records hold usernames that are equal up to letter     *)
(* case; of the registrations competing for a name, the one whose write    *)
(* comes first is answered 201 and adds the record, and every one that     *)
(* reaches its lookup or its write after that is answered 409 USER_EXISTS  *)
(* and adds nothing.                                                       *)
(***************************************************************************)
NameTaken(name) ==
    \E id \in UserIds : ToLowerCase(users[id].username) = ToLowerCase(name)

C33_UniqueStep ==
    \A i \in Slots :
       LET r == reqs[i] IN
       (r.op = "register" /\ r.pc \in {"exists", "save"} /\ reqs'[i] # r)
       => IF NameTaken(r.name)
          THEN /\ reqs'[i] = Idle
               /\ resp'.op = "register" /\ resp'.status = 409 /\ resp'.code = "USER_EXISTS"
               /\ users' = users
          ELSE IF r.pc = "save" /\ ~StreamKeyIndexRejects(Len(users) + 1, r.newKey)
          THEN /\ reqs'[i] = Idle
               /\ resp'.op = "register" /\ resp'.status = 201
               /\ Len(users') = Len(users) + 1
               /\ users'[Len(users')].username = ToLowerCase(r.name)
          ELSE users' = users

C33_UniqueUsernames ==
    /\ [](\A a, b \in UserIds :
            ToLowerCase(users[a].username) = ToLowerCase(users[b].username) => a = b)
    /\ [][C33_UniqueStep]_vars

\* one registration was answered 201 while a competitor, whose name differs
\* in letter case only, waits for its write
C33_Witness ==
    /\ resp.op = "register" /\ resp.status = 201
    /\ \E i \in Slots :
          /\ reqs[i].op = "register" /\ reqs[i].pc = "save"
          /\ NameTaken(reqs[i].name)
          /\ \A id \in UserIds : users[id].username # reqs[i].name

(***************************************************************************)
(* C34: optionalAuth sends no answer and calls next() for every request;   *)
(* when the request has no Authorization header, or its token is not       *)
(* accepted, req.user is null.                                             *)
(***************************************************************************)
C34_OptionalNeverRejects ==
    tkResp.op = "optional"
    => /\ tkResp.status = 0
       /\ tkResp.next
       /\ tkResp.user # <<>>
       /\ (~Truthy(tkResp.req.authorization) \/ JwtVerify(tkResp.token, tkResp.at).err # "")
             => tkResp.user[1] = JsNull

(***************************************************************************)
(* C35: a verify is answered 200 for a key, and its update of streamCount  *)
(* and lastStreamTime and its cache entry are applied, only when at that   *)
(* instant the key is the stored streamKey of the user that is updated and *)
(* the user is active.                                                     *)
(***************************************************************************)
C35_AllowOnlyCurrentKey ==
    [][\A i \in Slots :
          (/\ reqs[i].op = "verify" /\ reqs[i].pc = "updateOne" /\ reqs'[i] = Idle
           /\ (\/ resp'.status = 200
               \/ users'[reqs[i].user.id] # users[reqs[i].user.id]
               \/ streamStatusCache' # streamStatusCache))
          => /\ users[reqs[i].user.id].streamKey = reqs[i].key.s
             /\ users[reqs[i].user.id].isActive]_vars

(***************************************************************************)
(* C36: a public status lookup answers isStreaming true only for a user    *)
(* whose latest allowed verification was answered at most 60 s earlier,    *)
(* whether the answer comes from the cache or from the store and whatever  *)
(* the letter case of the requested name.                                  *)
(***************************************************************************)
PublicAnswered ==
    /\ resp'.op = "public"
    /\ \/ started' # started /\ reqs' = reqs
       \/ \E i \in Slots : reqs[i].op = "public" /\ reqs'[i] = Idle

C36_PublicLiveIsRecent ==
    [][(PublicAnswered /\ resp'.live = <<TRUE>>)
       => \E id \in UserIds :
             /\ users[id].username = ToLowerCase(resp'.data[1].username)
             /\ phase[id].allowed # <<>>
             /\ now - phase[id].allowed[1] <= StreamTimeout]_vars

(***************************************************************************)
(* C37: a public status lookup for a name that no user record holds, or    *)
(* whose account is disabled, is answered 404, also while the cache holds  *)
(* a fresh entry for the name: an answer 200 names an active user.         *)
(***************************************************************************)
C37_PublicNotFound ==
    [][PublicAnswered
       => /\ resp'.status \in {200, 400, 404}
          /\ resp'.status = 200
                => \E id \in UserIds :
                      /\ users[id].username = ToLowerCase(resp'.data[1].username)
                      /\ users[id].isActive]_vars

(***************************************************************************)
(* C38: a verify that is refused (missing key, invalid format, key not     *)
(* found, account disabled) changes no user record and no cache entry.     *)
(***************************************************************************)
VerifyAnswered ==
    /\ resp'.op = "verify"
    /\ \/ started' # started /\ reqs' = reqs
       \/ \E i \in Slots : reqs[i].op = "verify" /\ reqs'[i] = Idle

C38_DenyChangesNothing ==
    [][(VerifyAnswered /\ resp'.status # 200)
       => /\ resp'.code \in {"MISSING_STREAM_KEY", "INVALID_STREAM_KEY_FORMAT",
                             "INVALID_STREAM_KEY", "ACCOUNT_DISABLED"}
          /\ users' = users
          /\ streamStatusCache' = streamStatusCache
          /\ onlineUsersCache' = onlineUsersCache]_vars

\* a disabled account was refused while another user's entry is in the cache
C38_Witness ==
    /\ resp.op = "verify" /\ resp.code = "ACCOUNT_DISABLED"
    /\ DOMAIN streamStatusCache = {Abc}
    /\ users[1].streamCount = 1 /\ users[2].streamCount = 0
    /\ users[2].lastStreamTime = JsNull

(***************************************************************************)
(* C39: the instants stored for an identifier are never more than          *)
(* maxRequests and are in non-decreasing order; a denied check adds no     *)
(* instant (it only drops expired ones); the remaining count reported by   *)
(* an allowed check is maxRequests minus the stored length, and is not     *)
(* negative.                                                               *)
(***************************************************************************)
C39_DeniedStep ==
    (rlHist' # rlHist /\ rlResp'.status = 429)
    => /\ DOMAIN requests' = DOMAIN requests
       /\ \A id \in DOMAIN requests :
             /\ Len(requests'[id]) <= Len(requests[id])
             /\ Range(requests'[id]) \subseteq Range(requests[id])
             /\ id # rlResp'.id => requests'[id] = requests[id]

C39_WindowInvariant ==
    /\ [](\A id \in DOMAIN requests :
            /\ Len(requests[id]) <= maxRequests
            /\ \A j, k \in DOMAIN requests[id] : j < k => requests[id][j] <= requests[id][k])
    /\ [](rlResp.status = 200
            => /\ rlResp.remaining = maxRequests - Len(requests[rlResp.id])
               /\ rlResp.remaining >= 0)
    /\ [][C39_DeniedStep]_vars

\* a full window: the latest check was denied, another identifier was allowed
C39_Witness ==
    /\ rlResp.status = 429
    /\ Len(requests[rlResp.id]) = maxRequests /\ maxRequests = MaxBudget
    /\ requests[rlResp.id][1] < requests[rlResp.id][maxRequests]
    /\ \E id \in DOMAIN requests : id # rlResp.id /\ Len(requests[id]) = 1

(***************************************************************************)
(* C40: every findOne by stream key that a verify sends carries a key that *)
(* has passed validateStreamKey, also when the stand-in middleware that    *)
(* replaces streamMiddleware after a failed load is in use.                *)
(***************************************************************************)
C40_LookupKeyValidated ==
    \A i \in Slots :
       (reqs[i].op = "verify" /\ reqs[i].pc = "findOne") => validateStreamKey(reqs[i].key)

====
